---- MODULE Spec2Model ----
(***************************************************************************)
(* Failover / failback orchestrator of the CockroachDB PCR automation:     *)
(* ClusterMonitor (src/src/cluster_monitor.py), FailbackManager            *)
(* (src/src/failback_manager.py) and the CLI commands that drive them      *)
(* (src/cli.py).  One CLI command runs per behaviour; the control-plane    *)
(* API is the environment: the clusters' state and the replication         *)
(* stream's status change on their own, and every request can fail.        *)
(***************************************************************************)
EXTENDS Integers, Sequences, FiniteSets, TLC

\* ----------------------------------------------------------------- bounds
\* FAILURE_THRESHOLD is drawn from 1..MaxThreshold (config.py:22, cli.py:41).
MaxThreshold == 3
\* Iterations of cmd_monitor's "while running" loop that are explored.
MaxCycles == 3
\* max_wait_time / check_interval of the polling loops (3600/10 in the source).
MaxPolls == 4
\* The seconds one status fetch takes (the timeout of its requests.get is 10).
fetch_time == 5

\* ------------------------------------------------------- program constants
check_interval == 10
max_wait_time == MaxPolls * check_interval

\* Python's None for a stream id, and the id of the replication stream.
NoId == "None"
StreamId == "sid"
\* The id of an older stream of the failback's cluster pair, long COMPLETED.
OldStreamId == "old"
OldStream == [status |-> "COMPLETED", activated_at |-> "t1"]

\* dict.get results: a key that is absent, a key whose value is JSON null.
Absent == "<absent>"
Null == "<null>"

StreamStatuses ==
    {"STARTING", "REPLICATING", "FAILING_OVER", "COMPLETED", "FAILED", "CANCELLED"}
\* "NONE": the stream does not exist on the remote service.
NoStream == "NONE"
ActivatedTimes == {"t1", "t2"}

\* str.upper() on the strings the remote service sends.
Upper(s) ==
    CASE s = "starting" -> "STARTING"
      [] s = "replicating" -> "REPLICATING"
      [] s = "failing_over" -> "FAILING_OVER"
      [] s = "completed" -> "COMPLETED"
      [] s = "failed" -> "FAILED"
      [] s = "cancelled" -> "CANCELLED"
      [] s = "created" -> "CREATED"
      [] OTHER -> s

\* The same status as the service may spell it in lower case.
Lower(s) ==
    CASE s = "STARTING" -> "starting"
      [] s = "REPLICATING" -> "replicating"
      [] s = "FAILING_OVER" -> "failing_over"
      [] s = "COMPLETED" -> "completed"
      [] s = "FAILED" -> "failed"
      [] s = "CANCELLED" -> "cancelled"
      [] OTHER -> s

\* What GET /clusters/{id} can report about a cluster.
ClusterConds ==
    { [state |-> "CREATED", op |-> ""],
      [state |-> "CREATED", op |-> "FAILED"],
      [state |-> "DELETING", op |-> ""] }
HealthyCond == [state |-> "CREATED", op |-> ""]

Cmds == {"monitor", "failover", "failback_create", "failback_initiate", "failback_full"}

VARIABLES
    current_active_cluster, \* ConnectionManager.current_active_cluster
    last_health_check,  \* ConnectionManager.last_health_check
    connection_cache,   \* ApplicationConnectionHelper.connection_cache
    last_cache_update,  \* ApplicationConnectionHelper.last_cache_update
    stored_at,          \* history: when each entry of connection_cache was stored
    now,                \* time.time()
    req,                \* history: the request the last step served
    gac,                \* history: the call of get_active_cluster the last step made
    FAILOVER_TO_LATEST, \* Config.FAILOVER_TO_LATEST
    FAILOVER_AT_TIMESTAMP, \* Config.FAILOVER_AT_TIMESTAMP
    streams,            \* remote: the list GET /physical-replication-streams returns
    fn,                 \* history: the last function applied, its arguments and result
    found,              \* history: the ids successful discoveries returned
    callbacks,          \* history: the traffic-routing callbacks invoked
    accepted_run,       \* history: a cutover request of this run of the monitor was accepted
    retry,              \* get_db_connection_with_retry: its locals, position and history
    service,            \* SeamlessFailoverService.run: running, its position and history
    scenario,           \* AutomatedTestScenario: its fields, position and history
    PRIMARY_CLUSTER_ID, \* Config.PRIMARY_CLUSTER_ID
    STANDBY_CLUSTER_ID, \* Config.STANDBY_CLUSTER_ID
    failback_primary_id,  \* FailbackManager.failback_primary_id
    failback_standby_id,  \* FailbackManager.failback_standby_id
    running,            \* cmd_monitor: the flag of "while running"
    sig_pc,             \* history: where the loop was when the signal arrived
    cmd,                \* the CLI command of this run
    wait,               \* failback full: wait_for_replication (not --no-wait)
    pc,                 \* position in the command's code
    ret,                \* return value of detect_and_handle_failure / the command
    poll_ret,           \* return value of the last progress poller / wait loop
    threshold,          \* Config.FAILURE_THRESHOLD
    cycles,             \* iterations of the monitor loop started
    failure_count,      \* ClusterMonitor.failure_count
    pcr_stream_id,      \* ClusterMonitor.pcr_stream_id
    failback_stream_id, \* FailbackManager.failback_stream_id
    elapsed_time,       \* the local elapsed_time of the running polling loop
    activated_at,       \* the activated_at a poller read and logged
    cluster,            \* remote: the clusters' state
    stream,             \* remote: the replication stream the command works on
    old_stream,         \* remote: an older stream of the failback pair exists
    inv,                \* history of the current invocation
    lastFetched,        \* history: the last status fetched of the stream
    failedAttempt,      \* history: a failover attempt of the monitor failed
    scen,               \* history: how far the polls of the current loop match Scenario
    seen,               \* history: the terminal status a poll of the current loop observed
    debounced,          \* history: unhealthy re-probes since the last reset
    unhealthy_run,      \* history: non-healthy probe results since the last healthy one
    wall                \* history: the time the current polling loop has taken

\* The state of the sidecar service (src/src/connection_manager.py,
\* src/src/failover_service.py).
svcVars ==
    <<current_active_cluster, last_health_check, connection_cache,
      last_cache_update, stored_at, now, req, gac>>
\* The configuration and the inputs of the functions checked on their own.
fnVars == <<FAILOVER_TO_LATEST, FAILOVER_AT_TIMESTAMP, streams, fn, found>>
\* The callers of the helper and of the sidecar's handler.
appVars == <<retry, service>>
\* What no command of the orchestrator assigns.
otherVars == <<svcVars, fnVars, callbacks, appVars, scenario>>
\* The identifiers no statement of the program assigns after construction.
idVars ==
    <<PRIMARY_CLUSTER_ID, STANDBY_CLUSTER_ID, failback_primary_id, failback_standby_id>>
\* What only signal_handler assigns.
sigVars == <<running, sig_pc>>
\* The fields of ClusterMonitor and FailbackManager a discovery could assign.
fieldVars == <<failure_count, pcr_stream_id, failback_stream_id>>
\* The rest of a command's state.
cmdVars ==
    <<idVars, sigVars, cmd, wait, pc, ret, poll_ret, threshold, cycles,
      elapsed_time, activated_at>>
\* The history of the whole run of a command.
runVars == <<accepted_run>>
progVars == <<otherVars, runVars, cmdVars, fieldVars>>
envVars == <<cluster, stream, old_stream>>
histVars ==
    <<inv, lastFetched, failedAttempt, scen, seen, debounced, unhealthy_run, wall>>
vars == <<progVars, envVars, histVars>>

\* ------------------------------------------------------------ remote values
NoneInfo == [none |-> TRUE, empty |-> FALSE, status |-> Absent, activated_at |-> Absent]
EmptyInfo == [none |-> FALSE, empty |-> TRUE, status |-> Absent, activated_at |-> Absent]
Body(st, at) == [none |-> FALSE, empty |-> FALSE, status |-> st, activated_at |-> at]

\* The JSON bodies a 200 response of GET /physical-replication-streams/{id}
\* can carry for the stream as it is: the status as it is, in lower case,
\* missing, or null; or an object with no key at all.
Bodies(s) ==
    { Body(s.status, s.activated_at), Body(Lower(s.status), s.activated_at),
      Body(Absent, s.activated_at), Body(Null, s.activated_at), EmptyInfo }

\* What a fetch observes of the stream s, for the history variables: the
\* stream's status when the response carries it, else how it is missing.
Observed(info, s) ==
    IF info.none THEN "FAIL"
    ELSE IF info.empty THEN "EMPTY"
    ELSE IF info.status = Absent THEN ""
    ELSE IF info.status = Null THEN "NULL"
    ELSE s.status

\* The last status known of the stream after one more fetch.
Known(last, obs) == IF obs \in StreamStatuses THEN obs ELSE last

\* The sequence of fetched statuses of the scenario "Replicating, FailingOver,
\* FailingOver, Completed", and how far the polls made so far match it
\* (-1: they do not).
Scenario == <<"REPLICATING", "FAILING_OVER", "FAILING_OVER", "COMPLETED">>
ScenStep(k, obs) ==
    IF k >= 0 /\ k < Len(Scenario) /\ obs = Scenario[k + 1] THEN k + 1 ELSE -1

\* The terminal status the polls made so far have observed, if any.
Terminal == {"COMPLETED", "FAILED", "CANCELLED"}
SeenStep(sn, obs) == IF sn = "none" /\ obs \in Terminal THEN obs ELSE sn

\* A probe's result, for the history.
Health(is_healthy) == IF is_healthy THEN "healthy" ELSE "unhealthy"

InvInit ==
    [probe1 |-> "none", delayed |-> FALSE, hwin |-> FALSE, reprobe |-> "none",
     fetched |-> "none", patch |-> FALSE, accepted |-> FALSE,
     confirmed |-> FALSE, post |-> 0, created |-> NoId,
     payload |-> [primary_cluster_id |-> NoId, standby_cluster_id |-> NoId],
     ready |-> FALSE, target |-> {}]

\* --------------------------------------------------------- ClusterMonitor

\* The classification of one response of GET /clusters/{id}.
healthy_states == {"CREATED"}
ClassifyHealth(code, state, op) ==
    code = 200 /\ Upper(state) \in healthy_states /\ Upper(op) # "FAILED"

\* check_primary_cluster_health: a 200 with the cluster's state, a non-200,
\* or an exception (timeout, connection error), which yields False.
ProbeResults(c) ==
    { ClassifyHealth(code, cluster[c].state, cluster[c].op) : code \in {200, 503} }
        \cup {FALSE}

\* discover_pcr_stream_id: the id of the matching stream in the list, or None
\* (no match, a non-200, an exception).
DiscoverResults == IF stream.status = NoStream THEN {NoId} ELSE {StreamId, NoId}

\* The id get_pcr_stream_info / initiate_failover work with: the cached one,
\* or a discovered one when none is cached ("if not self.pcr_stream_id");
\* before it, the faulty variant that discovers on every call.
ResolveIds_always(id) == DiscoverResults
ResolveIds(id) == IF id = NoId THEN DiscoverResults ELSE {id}

\* The GET of get_pcr_stream_info for a known id: None on a non-200 or an
\* exception, else the body.
GetResults(id) ==
    IF id = NoId \/ stream.status = NoStream THEN {NoneInfo}
    ELSE {NoneInfo} \cup Bodies(stream)

\* Python truthiness of "if stream_info:" (None and {} are falsy).
Truthy(info) == ~info.none /\ ~info.empty

\* stream_info.get("status", "")
GetStatus(info) == IF info.status = Absent THEN "" ELSE info.status

\* "current_status not in [REPLICATING, STARTING]" negated; before it, the
\* test written as a deny-list, a faulty variant the properties must reject.
Failoverable_denylist(status) == status \notin {"COMPLETED", "FAILED", "CANCELLED"}
Failoverable(status) == status \in {"REPLICATING", "STARTING"}

\* "self.failure_count >= Config.FAILURE_THRESHOLD"; before it, the test off
\* by one either way, faulty variants the properties must reject.
ThresholdReached_early(fc, thr) == fc >= thr - 1
ThresholdReached_late(fc, thr) == fc > thr
ThresholdReached(fc, thr) == fc >= thr

\* "self.failure_count = 0" of the two healthy branches; before it, the
\* faulty variant that forgets the reset.
ResetCount_keep(fc) == fc
ResetCount(fc) == 0

\* "if not self.check_primary_cluster_health()" of the re-probe; before it,
\* the faulty variant that ignores the re-probe's result.
StillUnhealthy_ignored(is_healthy) == TRUE
StillUnhealthy(is_healthy) == ~is_healthy

\* cmd_monitor: one more iteration of "while running", calling
\* detect_and_handle_failure.
LoopIter ==
    /\ cmd = "monitor" /\ pc = "loop" /\ running /\ cycles < MaxCycles
    /\ cycles' = cycles + 1
    /\ pc' = "probe1"
    /\ UNCHANGED <<otherVars, runVars, idVars, sigVars, cmd, wait, ret, poll_ret, threshold, failure_count,
                   pcr_stream_id, failback_stream_id, elapsed_time, activated_at,
                   envVars, histVars>>

\* detect_and_handle_failure, lines 214-226 and 265: the first probe, the
\* reset or the increment, and the threshold test.
Probe1 ==
    /\ pc = "probe1"
    /\ \E is_healthy \in ProbeResults(PRIMARY_CLUSTER_ID) :
         IF is_healthy
         THEN /\ failure_count' = ResetCount(failure_count)
              /\ debounced' = 0 /\ unhealthy_run' = 0
              /\ ret' = "False" /\ pc' = "cycle_sleep"
              /\ inv' = [inv EXCEPT !.probe1 = "healthy"]
         ELSE /\ failure_count' = failure_count + 1
              /\ debounced' = debounced /\ unhealthy_run' = unhealthy_run + 1
              /\ inv' = [inv EXCEPT !.probe1 = "unhealthy"]
              /\ IF ThresholdReached(failure_count + 1, threshold)
                 THEN pc' = "delay" /\ ret' = ret
                 ELSE pc' = "cycle_sleep" /\ ret' = "False"
    /\ UNCHANGED <<otherVars, runVars, idVars, sigVars, cmd, wait, poll_ret, threshold, cycles, pcr_stream_id,
                   failback_stream_id, elapsed_time, activated_at,
                   envVars, lastFetched, failedAttempt, scen, seen, wall>>

\* time.sleep(Config.FAILOVER_DELAY) returns.
Delay ==
    /\ pc = "delay"
    /\ pc' = "reprobe"
    /\ inv' = [inv EXCEPT !.delayed = TRUE]
    /\ UNCHANGED <<otherVars, runVars, idVars, sigVars, cmd, wait, ret, poll_ret, threshold, cycles, failure_count,
                   pcr_stream_id, failback_stream_id, elapsed_time,
                   activated_at, envVars, lastFetched, failedAttempt, scen, seen,
                   debounced, unhealthy_run, wall>>

\* Lines 236-237 and 260-263: the re-probe after the delay.
Reprobe ==
    /\ pc = "reprobe"
    /\ \E is_healthy \in ProbeResults(PRIMARY_CLUSTER_ID) :
         IF ~StillUnhealthy(is_healthy)
         THEN /\ failure_count' = ResetCount(failure_count)
              /\ debounced' = 0 /\ unhealthy_run' = 0
              /\ ret' = "False" /\ pc' = "cycle_sleep"
              /\ inv' = [inv EXCEPT !.reprobe = Health(is_healthy)]
         ELSE /\ failure_count' = failure_count
              /\ debounced' = debounced + 1 /\ unhealthy_run' = unhealthy_run + 1
              /\ ret' = ret /\ pc' = "check_stream"
              /\ inv' = [inv EXCEPT !.reprobe = Health(is_healthy)]
    /\ UNCHANGED <<otherVars, runVars, idVars, sigVars, cmd, wait, poll_ret, threshold, cycles, pcr_stream_id,
                   failback_stream_id, elapsed_time, activated_at,
                   envVars, lastFetched, failedAttempt, scen, seen, wall>>

\* cmd_monitor, lines 73-75: an exception raised in a cycle is caught by the
\* loop, which sleeps and goes on; before it, the faulty variant in which the
\* exception ends the command.
OnException_crash == "done"
OnException == "cycle_sleep"

\* Lines 240-248: get_pcr_stream_info (with its discovery) and the status
\* precondition.  A null status makes .upper() raise out of the function.
CheckStream ==
    /\ pc = "check_stream"
    /\ \E id \in ResolveIds(pcr_stream_id) : \E stream_info \in GetResults(id) :
         /\ pcr_stream_id' = id
         /\ lastFetched' = Known(lastFetched, Observed(stream_info, stream))
         /\ inv' = [inv EXCEPT !.fetched = Observed(stream_info, stream)]
         /\ IF Truthy(stream_info)
            THEN IF GetStatus(stream_info) = Null
                 THEN ret' = "raise" /\ pc' = OnException
                 ELSE IF ~Failoverable(Upper(GetStatus(stream_info)))
                      THEN ret' = "False" /\ pc' = "cycle_sleep"
                      ELSE ret' = ret /\ pc' = "initiate"
            ELSE ret' = ret /\ pc' = "initiate"
    /\ UNCHANGED <<otherVars, runVars, idVars, sigVars, cmd, wait, poll_ret, threshold, cycles, failure_count,
                   failback_stream_id, elapsed_time, activated_at, envVars,
                   failedAttempt, scen, seen, debounced, unhealthy_run, wall>>

\* The remote service's answer to PATCH {status: FAILING_OVER}: a 200 only
\* for a stream that is STARTING or REPLICATING, which then starts failing
\* over at once or a little later; a non-200 or an exception at any time.
PatchResults ==
    {<<FALSE, stream>>} \cup
    IF stream.status \in {"STARTING", "REPLICATING"}
    THEN {<<TRUE, stream>>, <<TRUE, [stream EXCEPT !.status = "FAILING_OVER"]>>}
    ELSE {}

\* Where the code goes after initiate_failover, by its caller.
AfterInitiate(success) ==
    IF success THEN "mfp"
    ELSE IF cmd = "monitor" THEN "cycle_sleep" ELSE "done"

\* initiate_failover (lines 138-173) and its caller's test of the result
\* (lines 251-259, cli.py 110-117).
Initiate ==
    /\ pc = "initiate"
    /\ \E id \in ResolveIds(pcr_stream_id) :
         /\ pcr_stream_id' = id
         /\ IF id = NoId
            THEN /\ pc' = AfterInitiate(FALSE)
                 /\ ret' = (IF cmd = "monitor" THEN "False" ELSE "exit1")
                 /\ UNCHANGED <<stream, inv, failedAttempt, accepted_run>>
            ELSE \E r \in PatchResults :
                 /\ stream' = r[2]
                 /\ inv' = [inv EXCEPT !.patch = TRUE, !.accepted = r[1]]
                 /\ pc' = AfterInitiate(r[1])
                 /\ ret' = (IF r[1] THEN ret
                            ELSE IF cmd = "monitor" THEN "False" ELSE "exit1")
                 /\ failedAttempt' = (failedAttempt \/ (cmd = "monitor" /\ ~r[1]))
                 /\ accepted_run' = (accepted_run \/ (cmd = "monitor" /\ r[1]))
    /\ UNCHANGED <<otherVars, idVars, sigVars, cmd, wait, poll_ret, threshold, cycles, failure_count,
                   failback_stream_id, elapsed_time, activated_at, cluster,
                   old_stream, lastFetched, scen, seen, debounced, unhealthy_run, wall>>

\* "while elapsed_time < max_wait_time" of the three polling loops; before
\* it, the faulty variant that polls once more.
WithinBound_inclusive(elapsed) == elapsed <= max_wait_time
WithinBound(elapsed) == elapsed < max_wait_time

\* Where the code goes when monitor_failover_progress has returned or raised:
\* detect_and_handle_failure returns True whatever the poller returned.
AfterPoll == IF cmd = "monitor" THEN "cycle_sleep" ELSE "done"
\* The result of the caller; before it, the faulty variant in which
\* detect_and_handle_failure returns what the poller returned.
RetAfterPoll_ofPoller(r) ==
    IF r = "raise" THEN "raise" ELSE IF cmd = "monitor" THEN r ELSE "exit0"
RetAfterPoll(r) ==
    IF r = "raise" THEN "raise" ELSE IF cmd = "monitor" THEN "True" ELSE "exit0"

\* "status == COMPLETED" of monitor_failover_progress; before it, the faulty
\* variant that takes any terminal status for completion.
IsCompleted_anyTerminal(status) == status \in {"COMPLETED", "FAILED", "CANCELLED"}
IsCompleted(status) == status = "COMPLETED"

\* monitor_failover_progress, lines 183-201 and 206-207: the loop test, one
\* fetch and its evaluation.
MonitorFailoverProgress ==
    /\ pc = "mfp"
    /\ IF ~WithinBound(elapsed_time)
       THEN /\ poll_ret' = "False"
            /\ ret' = RetAfterPoll("False") /\ pc' = AfterPoll
            /\ failedAttempt' = (failedAttempt \/ cmd = "monitor")
            /\ UNCHANGED <<pcr_stream_id, activated_at, lastFetched, scen, seen, wall>>
       ELSE \E id \in ResolveIds(pcr_stream_id) : \E stream_info \in GetResults(id) :
            /\ pcr_stream_id' = id
            /\ wall' = wall + fetch_time
            /\ lastFetched' = Known(lastFetched, Observed(stream_info, stream))
            /\ scen' = ScenStep(scen, Observed(stream_info, stream))
            /\ seen' = SeenStep(seen, Observed(stream_info, stream))
            /\ IF ~Truthy(stream_info)
               THEN /\ pc' = "mfp_sleep"
                    /\ UNCHANGED <<poll_ret, ret, activated_at, failedAttempt>>
               ELSE IF GetStatus(stream_info) = Null
               THEN /\ poll_ret' = "raise"
                    /\ ret' = RetAfterPoll("raise") /\ pc' = AfterPoll
                    /\ failedAttempt' = (failedAttempt \/ cmd = "monitor")
                    /\ UNCHANGED activated_at
               ELSE IF IsCompleted(Upper(GetStatus(stream_info)))
               THEN /\ activated_at' = stream_info.activated_at
                    /\ poll_ret' = "True"
                    /\ ret' = RetAfterPoll("True") /\ pc' = AfterPoll
                    /\ UNCHANGED failedAttempt
               ELSE /\ pc' = "mfp_sleep"
                    /\ UNCHANGED <<poll_ret, ret, activated_at, failedAttempt>>
    /\ UNCHANGED <<otherVars, runVars, idVars, sigVars, cmd, wait, threshold, cycles, failure_count,
                   failback_stream_id, elapsed_time, envVars, inv, debounced, unhealthy_run>>

\* Lines 187-189 and 203-204: time.sleep(check_interval), elapsed_time += it.
MonitorFailoverSleep ==
    /\ pc = "mfp_sleep"
    /\ elapsed_time' = elapsed_time + check_interval
    /\ wall' = wall + check_interval
    /\ pc' = "mfp"
    /\ UNCHANGED <<otherVars, runVars, idVars, sigVars, cmd, wait, ret, poll_ret, threshold, cycles, failure_count,
                   pcr_stream_id, failback_stream_id, activated_at,
                   envVars, inv, lastFetched,
                   failedAttempt, scen, seen, debounced, unhealthy_run>>

\* cmd_monitor, lines 67-69 and 73-75: the result is reported, an exception
\* of the cycle is caught, and time.sleep(Config.HEALTH_CHECK_INTERVAL)
\* returns; the locals and the history of the invocation are gone.
CycleSleep ==
    /\ pc = "cycle_sleep"
    /\ pc' = "loop"
    /\ ret' = "none" /\ poll_ret' = "none"
    /\ elapsed_time' = 0 /\ activated_at' = Absent
    /\ inv' = InvInit /\ scen' = 0 /\ seen' = "none" /\ wall' = 0
    /\ UNCHANGED <<otherVars, runVars, idVars, sigVars, cmd, wait, threshold, cycles, failure_count,
                   pcr_stream_id, failback_stream_id, envVars, lastFetched,
                   failedAttempt, debounced, unhealthy_run>>

\* Where a signal finds the loop: in one of its three sleeps, or elsewhere.
SigPoint(at) ==
    CASE at = "delay" -> "debounce_wait"
      [] at = "mfp_sleep" -> "poll_sleep"
      [] at = "cycle_sleep" -> "cycle_sleep"
      [] OTHER -> "step"

\* cmd_monitor, lines 49-55: SIGINT or SIGTERM arrives and signal_handler
\* clears the flag; whatever was running, a sleep included, then resumes.
signal_handler ==
    /\ cmd = "monitor" /\ pc # "done" /\ running
    /\ running' = FALSE
    /\ sig_pc' = SigPoint(pc)
    /\ UNCHANGED <<otherVars, runVars, idVars, cmd, wait, pc, ret, poll_ret, threshold, cycles,
                   failure_count, pcr_stream_id, failback_stream_id, elapsed_time,
                   activated_at, envVars, histVars>>

\* cmd_monitor, lines 64 and 77: "while running" finds the flag cleared.
LoopExit ==
    /\ cmd = "monitor" /\ pc = "loop" /\ ~running
    /\ pc' = "done" /\ ret' = "stopped"
    /\ UNCHANGED <<otherVars, runVars, idVars, sigVars, cmd, wait, poll_ret, threshold, cycles,
                   failure_count, pcr_stream_id, failback_stream_id, elapsed_time,
                   activated_at, envVars, histVars>>

\* ------------------------------------------------------------ cmd_failover

\* cmd_failover, lines 96-101: the stream's status is fetched and printed.
CmdFailoverInfo ==
    /\ pc = "cf_info"
    /\ \E id \in ResolveIds(pcr_stream_id) : \E stream_info \in GetResults(id) :
         /\ pcr_stream_id' = id
         /\ lastFetched' = Known(lastFetched, Observed(stream_info, stream))
         /\ inv' = [inv EXCEPT !.fetched = Observed(stream_info, stream)]
    /\ pc' = "cf_confirm"
    /\ UNCHANGED <<otherVars, runVars, idVars, sigVars, cmd, wait, ret, poll_ret, threshold, cycles, failure_count,
                   failback_stream_id, elapsed_time, activated_at, envVars,
                   failedAttempt, scen, seen, debounced, unhealthy_run, wall>>

\* cmd_failover, lines 103-107: --yes was given or the operator types YES;
\* any other answer cancels.
CmdFailoverConfirm ==
    /\ pc = "cf_confirm"
    /\ \E proceed \in BOOLEAN :
         IF proceed
         THEN pc' = "initiate" /\ ret' = ret
              /\ inv' = [inv EXCEPT !.confirmed = TRUE]
         ELSE pc' = "done" /\ ret' = "cancelled" /\ inv' = inv
    /\ UNCHANGED <<otherVars, runVars, idVars, sigVars, cmd, wait, poll_ret, threshold, cycles, failure_count,
                   pcr_stream_id, failback_stream_id, elapsed_time, activated_at,
                   envVars, lastFetched, failedAttempt, scen, seen, debounced,
                   unhealthy_run, wall>>

\* -------------------------------------------------------- FailbackManager

\* FailbackManager.check_cluster_health: its classification of a response.
FbClassifyHealth(code, state, op) ==
    code = 200 /\ Upper(state) \in {"CREATED"} /\ Upper(op) # "FAILED"

FbProbeResults(c) ==
    { FbClassifyHealth(code, cluster[c].state, cluster[c].op) : code \in {200, 503} }
        \cup {FALSE}

\* discover_failback_stream_id: the id of the first stream of the list that
\* runs from failback_primary_id to failback_standby_id, or None.
FbDiscoverResults ==
    {NoId} \cup (IF stream.status = NoStream THEN {} ELSE {StreamId})
           \cup (IF old_stream THEN {OldStreamId} ELSE {})

FbResolveIds(id) == IF id = NoId THEN FbDiscoverResults ELSE {id}

\* The stream an id names.
FbStream(id) == IF id = OldStreamId THEN OldStream ELSE stream

\* The GET of get_failback_stream_info.
FbGetResults(id) ==
    IF id = NoId \/ FbStream(id).status = NoStream THEN {NoneInfo}
    ELSE {NoneInfo} \cup Bodies(FbStream(id))

\* The answer to the PATCH of initiate_failback on the stream id names; the
\* older stream is COMPLETED and refuses it.
FbPatchResults(id) == IF id = OldStreamId THEN {<<FALSE, stream>>} ELSE PatchResults

\* "if not self.check_cluster_health(...)" of full_failback_process; before
\* it, the faulty variant that goes on whatever the probe returned.
FbUnhealthy_ignored(is_healthy) == FALSE
FbUnhealthy(is_healthy) == ~is_healthy

\* cmd_failback, lines 189-193: --yes was given or the operator answers yes
\* or y; any other answer cancels.
CmdFailbackConfirm ==
    /\ pc = "ff_confirm"
    /\ \E proceed \in BOOLEAN :
         IF proceed
         THEN pc' = "ff_health1" /\ ret' = ret
              /\ inv' = [inv EXCEPT !.confirmed = TRUE]
         ELSE pc' = "done" /\ ret' = "cancelled" /\ inv' = inv
    /\ UNCHANGED <<otherVars, runVars, idVars, sigVars, cmd, wait, poll_ret, threshold, cycles, failure_count,
                   pcr_stream_id, failback_stream_id, elapsed_time, activated_at,
                   envVars, lastFetched, failedAttempt, scen, seen, debounced,
                   unhealthy_run, wall>>

\* full_failback_process, lines 308-310: the probe of the active cluster.
FullHealth1 ==
    /\ pc = "ff_health1"
    /\ \E is_healthy \in FbProbeResults(failback_primary_id) :
         /\ inv' = [inv EXCEPT !.probe1 = Health(is_healthy)]
         /\ IF FbUnhealthy(is_healthy) THEN pc' = "done" /\ ret' = "False"
            ELSE pc' = "ff_health2" /\ ret' = ret
    /\ UNCHANGED <<otherVars, runVars, idVars, sigVars, cmd, wait, poll_ret, threshold, cycles, failure_count,
                   pcr_stream_id, failback_stream_id, elapsed_time, activated_at,
                   envVars, lastFetched, failedAttempt, scen, seen, debounced,
                   unhealthy_run, wall>>

\* Lines 312-315: the probe of the original primary.
FullHealth2 ==
    /\ pc = "ff_health2"
    /\ \E is_healthy \in FbProbeResults(failback_standby_id) :
         /\ inv' = [inv EXCEPT !.reprobe = Health(is_healthy)]
         /\ IF FbUnhealthy(is_healthy) THEN pc' = "done" /\ ret' = "False"
            ELSE pc' = "ff_create" /\ ret' = ret
    /\ UNCHANGED <<otherVars, runVars, idVars, sigVars, cmd, wait, poll_ret, threshold, cycles, failure_count,
                   pcr_stream_id, failback_stream_id, elapsed_time, activated_at,
                   envVars, lastFetched, failedAttempt, scen, seen, debounced,
                   unhealthy_run, wall>>

\* The payload of create_failback_pcr_stream, lines 76-79; before it, the
\* faulty variant with the roles not reversed.
Payload_swapped(primary, standby) ==
    [primary_cluster_id |-> standby, standby_cluster_id |-> primary]
Payload(primary, standby) ==
    [primary_cluster_id |-> primary, standby_cluster_id |-> standby]

\* The remote service's answer to POST /physical-replication-streams: the
\* request fails with nothing created; or the stream is created (STARTING)
\* and its id returned; or it is created and the response carries no id or
\* is lost.  A pair that has a live stream already is refused.
PostResults ==
    {<<NoId, stream>>} \cup
    IF stream.status = NoStream
    THEN { <<id, [status |-> "STARTING", activated_at |-> Absent]>> :
             id \in {StreamId, NoId} }
    ELSE {}

\* "self.failback_stream_id = stream_id", line 96; before it, the faulty
\* variant that does not keep the id.
CreatedId_dropped(stream_id) == NoId
CreatedId(stream_id) == stream_id

\* The history of one POST that returned stream_id.
Posted(h, stream_id) ==
    [h EXCEPT !.post = @ + 1, !.created = stream_id,
              !.payload = Payload(failback_primary_id, failback_standby_id)]

\* create_failback_pcr_stream (lines 73-107) and lines 321-333 of
\* full_failback_process.
FullCreate ==
    /\ pc = "ff_create"
    /\ \E r \in PostResults :
         /\ stream' = r[2]
         /\ failback_stream_id' = CreatedId(r[1])
         /\ inv' = Posted(inv, r[1])
         /\ IF r[1] = NoId THEN pc' = "done" /\ ret' = "False"
            ELSE pc' = (IF wait THEN "wrr" ELSE "fb_initiate") /\ ret' = ret
    /\ UNCHANGED <<otherVars, runVars, idVars, sigVars, cmd, wait, poll_ret, threshold, cycles, failure_count,
                   pcr_stream_id, elapsed_time, activated_at, cluster, old_stream,
                   lastFetched, failedAttempt, scen, seen, debounced,
                   unhealthy_run, wall>>

\* cmd_failback, lines 151-161: "failback create-stream" calls
\* create_failback_pcr_stream at once.
CmdCreateStream ==
    /\ pc = "fc_create"
    /\ \E r \in PostResults :
         /\ stream' = r[2]
         /\ failback_stream_id' = CreatedId(r[1])
         /\ inv' = Posted(inv, r[1])
         /\ ret' = (IF r[1] = NoId THEN "exit1" ELSE "exit0")
    /\ pc' = "done"
    /\ UNCHANGED <<otherVars, runVars, idVars, sigVars, cmd, wait, poll_ret, threshold, cycles, failure_count,
                   pcr_stream_id, elapsed_time, activated_at, cluster, old_stream,
                   lastFetched, failedAttempt, scen, seen, debounced,
                   unhealthy_run, wall>>

\* 'status == "REPLICATING"' of wait_for_replication_ready; before it, the
\* faulty variant that takes a stream still STARTING for ready.
IsReady_starting(status) == status \in {"REPLICATING", "STARTING"}
IsReady(status) == status = "REPLICATING"

\* 'elif status == "COMPLETED"' of wait_for_replication_ready; before it,
\* the faulty variant that goes on waiting for a stream that is COMPLETED.
AlreadyCompleted_ignored(status) == FALSE
AlreadyCompleted(status) == status = "COMPLETED"

\* The history of one request that addressed the stream id, and of a fetch
\* that observed obs.
Targeted(h, id) == [h EXCEPT !.target = @ \cup ({id} \ {NoId})]
Fetched(h, id, obs) ==
    [Targeted(h, id) EXCEPT !.ready = @ \/ (id # NoId /\ obs = "REPLICATING")]

\* wait_for_replication_ready, lines 170-194 and 199-200, and lines 329-331
\* of full_failback_process.
WaitForReplicationReady ==
    /\ pc = "wrr"
    /\ IF ~WithinBound(elapsed_time)
       THEN /\ poll_ret' = "False" /\ ret' = "False" /\ pc' = "done"
            /\ UNCHANGED <<failback_stream_id, lastFetched, scen, seen, elapsed_time,
                           wall, inv>>
       ELSE \E id \in FbResolveIds(failback_stream_id) :
            \E stream_info \in FbGetResults(id) :
            /\ failback_stream_id' = id
            /\ wall' = wall + fetch_time
            /\ inv' = Fetched(inv, id, Observed(stream_info, FbStream(id)))
            /\ lastFetched' = Known(lastFetched, Observed(stream_info, FbStream(id)))
            /\ scen' = ScenStep(scen, Observed(stream_info, FbStream(id)))
            /\ seen' = SeenStep(seen, Observed(stream_info, FbStream(id)))
            /\ IF ~Truthy(stream_info)
               THEN pc' = "wrr_sleep" /\ UNCHANGED <<poll_ret, ret, elapsed_time>>
               ELSE IF GetStatus(stream_info) = Null
               THEN poll_ret' = "raise" /\ ret' = "raise" /\ pc' = "done"
                    /\ UNCHANGED elapsed_time
               ELSE IF IsReady(Upper(GetStatus(stream_info)))
               THEN /\ poll_ret' = "True" /\ ret' = ret /\ pc' = "fb_initiate"
                    /\ elapsed_time' = 0
               ELSE IF AlreadyCompleted(Upper(GetStatus(stream_info)))
               THEN poll_ret' = "False" /\ ret' = "False" /\ pc' = "done"
                    /\ UNCHANGED elapsed_time
               ELSE pc' = "wrr_sleep" /\ UNCHANGED <<poll_ret, ret, elapsed_time>>
    /\ UNCHANGED <<otherVars, runVars, idVars, sigVars, cmd, wait, threshold, cycles, failure_count, pcr_stream_id,
                   activated_at, envVars, failedAttempt, debounced, unhealthy_run>>

\* Lines 174-175 and 196-197: time.sleep(check_interval), elapsed_time += it.
WaitForReplicationSleep ==
    /\ pc = "wrr_sleep"
    /\ elapsed_time' = elapsed_time + check_interval
    /\ wall' = wall + check_interval
    /\ pc' = "wrr"
    /\ UNCHANGED <<otherVars, runVars, idVars, sigVars, cmd, wait, ret, poll_ret, threshold, cycles, failure_count,
                   pcr_stream_id, failback_stream_id, activated_at,
                   envVars, inv, lastFetched,
                   failedAttempt, scen, seen, debounced, unhealthy_run>>

\* initiate_failback (lines 212-251) and its caller's test of the result
\* (lines 337-339, cli.py 166-173).  The history of a wait loop before it
\* ends here.
InitiateFailback ==
    /\ pc = "fb_initiate"
    /\ \E id \in FbResolveIds(failback_stream_id) :
         /\ failback_stream_id' = id
         /\ IF id = NoId
            THEN /\ pc' = "done"
                 /\ ret' = (IF cmd = "failback_full" THEN "False" ELSE "exit1")
                 /\ UNCHANGED <<stream, inv>>
            ELSE \E r \in FbPatchResults(id) :
                 /\ stream' = r[2]
                 /\ inv' = [Targeted(inv, id) EXCEPT !.patch = TRUE, !.accepted = r[1]]
                 /\ pc' = (IF r[1] THEN "mbp" ELSE "done")
                 /\ ret' = (IF r[1] THEN ret
                            ELSE IF cmd = "failback_full" THEN "False" ELSE "exit1")
    /\ poll_ret' = "none" /\ scen' = 0 /\ seen' = "none" /\ wall' = 0
    /\ UNCHANGED <<otherVars, runVars, idVars, sigVars, cmd, wait, threshold, cycles, failure_count, pcr_stream_id,
                   elapsed_time, activated_at, cluster, old_stream, lastFetched,
                   failedAttempt, debounced, unhealthy_run>>

\* What the command reports when monitor_failback_progress has returned r:
\* full_failback_process returns it, "failback initiate" ignores it.  Before
\* it, the faulty variant that reports success whatever the poller returned.
FbRetAfterPoll_always(r) ==
    IF r = "raise" THEN "raise" ELSE IF cmd = "failback_full" THEN "True" ELSE "exit0"
FbRetAfterPoll(r) ==
    IF r = "raise" THEN "raise" ELSE IF cmd = "failback_full" THEN r ELSE "exit0"

\* monitor_failback_progress, lines 261-279 and 284-285.
MonitorFailbackProgress ==
    /\ pc = "mbp"
    /\ IF ~WithinBound(elapsed_time)
       THEN /\ poll_ret' = "False"
            /\ ret' = FbRetAfterPoll("False") /\ pc' = "done"
            /\ UNCHANGED <<failback_stream_id, activated_at, lastFetched, scen, seen,
                           wall, inv>>
       ELSE \E id \in FbResolveIds(failback_stream_id) :
            \E stream_info \in FbGetResults(id) :
            /\ failback_stream_id' = id
            /\ wall' = wall + fetch_time
            /\ inv' = Targeted(inv, id)
            /\ lastFetched' = Known(lastFetched, Observed(stream_info, FbStream(id)))
            /\ scen' = ScenStep(scen, Observed(stream_info, FbStream(id)))
            /\ seen' = SeenStep(seen, Observed(stream_info, FbStream(id)))
            /\ IF ~Truthy(stream_info)
               THEN /\ pc' = "mbp_sleep"
                    /\ UNCHANGED <<poll_ret, ret, activated_at>>
               ELSE IF GetStatus(stream_info) = Null
               THEN /\ poll_ret' = "raise"
                    /\ ret' = FbRetAfterPoll("raise") /\ pc' = "done"
                    /\ UNCHANGED activated_at
               ELSE IF Upper(GetStatus(stream_info)) = "COMPLETED"
               THEN /\ activated_at' = stream_info.activated_at
                    /\ poll_ret' = "True"
                    /\ ret' = FbRetAfterPoll("True") /\ pc' = "done"
               ELSE /\ pc' = "mbp_sleep"
                    /\ UNCHANGED <<poll_ret, ret, activated_at>>
    /\ UNCHANGED <<otherVars, runVars, idVars, sigVars, cmd, wait, threshold, cycles, failure_count, pcr_stream_id,
                   elapsed_time, envVars, failedAttempt, debounced, unhealthy_run>>

\* Lines 265-267 and 281-282: time.sleep(check_interval), elapsed_time += it.
MonitorFailbackSleep ==
    /\ pc = "mbp_sleep"
    /\ elapsed_time' = elapsed_time + check_interval
    /\ wall' = wall + check_interval
    /\ pc' = "mbp"
    /\ UNCHANGED <<otherVars, runVars, idVars, sigVars, cmd, wait, ret, poll_ret, threshold, cycles, failure_count,
                   pcr_stream_id, failback_stream_id, activated_at,
                   envVars, inv, lastFetched,
                   failedAttempt, scen, seen, debounced, unhealthy_run>>

\* ------------------------------------------------------------- environment

Running == pc \notin {"done", "loop"} \/ (pc = "loop" /\ cycles < MaxCycles)

\* The clusters the running command probes.
Probed == IF cmd = "failback_full" THEN {"primary", "standby"} ELSE {"primary"}

\* A cluster's state changes (it fails, recovers, is deleted).
ClusterChange ==
    /\ Running
    /\ \E c \in Probed : \E cond \in ClusterConds \ {cluster[c]} :
         /\ cluster' = [cluster EXCEPT ![c] = cond]
         /\ inv' = [inv EXCEPT !.hwin =
                       @ \/ (pc = "delay" /\ c = "primary" /\ cond = HealthyCond)]
    /\ UNCHANGED <<progVars, stream, old_stream, lastFetched, failedAttempt, scen, seen,
                   debounced, unhealthy_run, wall>>

\* The statuses a stream can move to on its own: forward only, and never
\* out of a terminal status.
NextStatuses(st) ==
    CASE st = "STARTING" -> {"REPLICATING", "FAILED", "CANCELLED"}
      [] st = "REPLICATING" -> {"FAILING_OVER", "FAILED", "CANCELLED"}
      [] st = "FAILING_OVER" -> {"COMPLETED", "FAILED"}
      [] OTHER -> {}

\* The replication stream makes progress; activated_at is set once COMPLETED.
StreamChange ==
    /\ Running
    /\ \E st \in NextStatuses(stream.status) :
         \E at \in (IF st = "COMPLETED" THEN ActivatedTimes ELSE {Absent}) :
            stream' = [status |-> st, activated_at |-> at]
    /\ UNCHANGED <<progVars, cluster, old_stream, histVars>>

\* --------------------------------------------------------------- behaviours

StreamInits ==
    { [status |-> st, activated_at |-> Absent] :
        st \in (StreamStatuses \ {"COMPLETED"}) \cup {NoStream} }
    \cup { [status |-> "COMPLETED", activated_at |-> at] : at \in ActivatedTimes }

\* Where each command starts.
StartPc(c) ==
    CASE c = "monitor" -> "loop"
      [] c = "failover" -> "cf_info"
      [] c = "failback_create" -> "fc_create"
      [] c = "failback_initiate" -> "fb_initiate"
      [] c = "failback_full" -> "ff_confirm"

\* ------------------------------------------------------------------------
\* The sidecar: ConnectionManager and ApplicationConnectionHelper
\* (src/src/connection_manager.py) behind the HTTP handler of
\* src/src/failover_service.py.  A request is served as one step.

\* self.health_check_interval and self.cache_ttl, in seconds.
health_check_interval == 30
cache_ttl == 60

\* time.time() when the service starts, how far it advances at once (to
\* the very end of the health-check interval), and how often.
Epoch == 1000
tick == health_check_interval
MaxTicks == 2

\* What the X-DB-Username and X-DB-Password headers carry.
Usernames == {"alice"}
Passwords == {"pw1", "pw2"}

\* cache_key = f"{username}@{active cluster}"
cache_key(username, c) == [username |-> username, cluster |-> c]
CacheKeys == { cache_key(u, c) : u \in Usernames, c \in {"primary", "standby"} }

\* f"postgresql://{username}:{password}@{sql_dns}:26257/...": the string
\* keeps the three values apart, so it is held as the three values.
connection_string(username, password, c) ==
    [kind |-> "url", username |-> username, password |-> password, host |-> c]
\* What get_connection_string returns when no SQL DNS is found:
\* Config.PRIMARY_CLUSTER_ENDPOINT, None when that is not configured.
PRIMARY_CLUSTER_ENDPOINT ==
    [kind |-> "endpoint", username |-> "", password |-> "", host |-> ""]
\* A key that is not in connection_cache; no string in a response.
NotCached == [kind |-> "absent", username |-> "", password |-> "", host |-> ""]

\* ConnectionManager.check_cluster_health on a JSON body; before it, the
\* faulty variant that compares the strings as they were sent.
CmClassifyHealth_caseSensitive(code, state, op) ==
    code = 200 /\ state \in {"CREATED"} /\ op # "FAILED"
CmClassifyHealth(code, state, op) ==
    code = 200 /\ Upper(state) \in {"CREATED"} /\ Upper(op) # "FAILED"

\* ConnectionManager.check_cluster_health: a 200 with the cluster's state, a
\* non-200 (no body), or an exception, which yields False.
CmProbeResults(c) ==
    { CmClassifyHealth(code, cluster[c].state, cluster[c].op) : code \in {200, 503} }
        \cup {FALSE}

\* What the two probes of one refresh can answer.
Outcomes ==
    { <<h1, h2>> : h1 \in CmProbeResults(PRIMARY_CLUSTER_ID),
                   h2 \in CmProbeResults(STANDBY_CLUSTER_ID) }

\* Lines 83-85: whether get_active_cluster probes; before it, the faulty
\* variant that also probes when exactly the interval has passed.
NeedsRefresh_atInterval(force_check, cur, age) ==
    force_check \/ cur = NoId \/ age >= health_check_interval
NeedsRefresh(force_check, cur, age) ==
    force_check \/ cur = NoId \/ age > health_check_interval

\* The fields of the ConnectionManager.
Manager == [cur |-> current_active_cluster, lhc |-> last_health_check]

\* Lines 103-105, "Both clusters are down": the cached id is left as it is;
\* before it, the faulty variant that caches the primary id it returns.
CacheWhenBothDown_returned(cur) == PRIMARY_CLUSTER_ID
CacheWhenBothDown(cur) == cur

\* get_active_cluster on the manager m at time t with the answers h1 (primary)
\* and h2 (standby) of its probes: the fields after it, what it returns, the
\* clusters it probed and what the probes answered.
get_active_cluster(m, t, force_check, h1, h2) ==
    IF NeedsRefresh(force_check, m.cur, t - m.lhc[PRIMARY_CLUSTER_ID])
    THEN IF h1
         THEN [cur |-> PRIMARY_CLUSTER_ID,
               lhc |-> [m.lhc EXCEPT ![PRIMARY_CLUSTER_ID] = t],
               ret |-> PRIMARY_CLUSTER_ID,
               probes |-> <<PRIMARY_CLUSTER_ID>>, answers |-> <<h1>>]
         ELSE [cur |-> IF h2 THEN STANDBY_CLUSTER_ID ELSE CacheWhenBothDown(m.cur),
               lhc |-> [c \in {PRIMARY_CLUSTER_ID, STANDBY_CLUSTER_ID} |-> t],
               ret |-> IF h2 THEN STANDBY_CLUSTER_ID ELSE PRIMARY_CLUSTER_ID,
               probes |-> <<PRIMARY_CLUSTER_ID, STANDBY_CLUSTER_ID>>,
               answers |-> <<h1, h2>>]
    ELSE [cur |-> m.cur, lhc |-> m.lhc,
          ret |-> IF m.cur = NoId THEN PRIMARY_CLUSTER_ID ELSE m.cur,
          probes |-> <<>>, answers |-> <<>>]

\* The answers a call on the manager m at time t can get: those of its
\* probes when it probes, none to choose from when it does not.
Answers(m, t, force_check) ==
    IF NeedsRefresh(force_check, m.cur, t - m.lhc[PRIMARY_CLUSTER_ID])
    THEN Outcomes ELSE {<<FALSE, FALSE>>}

\* The manager as a call leaves it.
After(r) == [cur |-> r.cur, lhc |-> r.lhc]

\* History of the call of get_active_cluster the last step made: its argument, what it found
\* cached, the time since the last probe of the primary, and what it did.
GacRec(m, t, force_check, r) ==
    [called |-> TRUE, force_check |-> force_check, cached |-> m.cur,
     age |-> t - m.lhc[PRIMARY_CLUSTER_ID], probes |-> r.probes,
     answers |-> r.answers, ret |-> r.ret, changed |-> After(r) # m]
GacInit ==
    [called |-> FALSE, force_check |-> FALSE, cached |-> NoId, age |-> 0,
     probes |-> <<>>, answers |-> <<>>, ret |-> NoId, changed |-> FALSE]

\* History of the request the last step served: its path and headers, the status of the response,
\* the connection string in it, whether serving it changed a field of the
\* manager or of the helper, the HTTP methods of its remote calls, whether
\* the string came from the cache, and when the string was stored there.
ReqInit ==
    [path |-> "none", code |-> 0, username |-> Absent, password |-> Absent,
     conn |-> NotCached, mutated |-> FALSE, methods |-> {},
     hit |-> FALSE, stored |-> 0]
ReqRec(path, code, mutated, methods) ==
    [ReqInit EXCEPT !.path = path, !.code = code, !.mutated = mutated,
                    !.methods = methods]

\* What no step of the sidecar touches.
restFrame ==
    <<fnVars, callbacks, scenario, runVars, cmdVars, fieldVars, stream, old_stream,
      histVars>>
svcFrame == <<restFrame, appVars>>

\* No exception; get_db_connection_with_retry before it is called: the
\* argument max_retries, the username (Absent: no credentials are given or
\* set), the loop variable, the calls of get_db_connection_string and the
\* forced refreshes made, the exceptions the calls raised, and what the
\* wrapper returned or raised.
NoExc == [kind |-> "none", attempt |-> -1]
RetryIdle ==
    [pc |-> "idle", max_retries |-> 0, username |-> Absent, attempt |-> 0,
     attempts |-> 0, refreshes |-> 0, excs |-> <<>>, ret |-> NotCached,
     exc |-> NoExc]

\* AutomatedTestScenario as __init__ leaves it: its fields, the loop's locals
\* (Config.HEALTH_CHECK_INTERVAL, check_count, elapsed), the seconds since
\* start_time, and the history: the successful disruptions and the elapsed
\* time of the first, the successful failover attempts, and the last call of
\* initiate_failover (the elapsed time and the fetched status it was made
\* on, failover_triggered before it, whether it sent the request, its result).
NoAttempt ==
    [called |-> FALSE, elapsed |-> 0, status |-> "none", before |-> FALSE,
     patch |-> FALSE, success |-> FALSE]
ScenarioIdle ==
    [pc |-> "idle", running |-> TRUE, disruption_triggered |-> FALSE,
     failover_triggered |-> FALSE, interval |-> 0, check_count |-> 0,
     elapsed |-> 0, t |-> 0, disruptions |-> 0, disrupted_at |-> -1,
     successes |-> 0, last |-> NoAttempt]

\* SeamlessFailoverService when run() reaches its loop: the flag, where the
\* loop is, the paths of the requests handled, whether and where a signal
\* found the loop, and the requests handled after the first signal.
ServiceIdle ==
    [running |-> TRUE, pc |-> "test", log |-> <<>>, signalled |-> FALSE,
     sig_at |-> "none", after |-> 0]

\* An application calls get_active_cluster, as get_db_connection_with_retry
\* does with force_check after a failed connection (lines 222-242).
GetActiveCluster ==
    \E force_check \in BOOLEAN : \E o \in Answers(Manager, now, force_check) :
      LET r == get_active_cluster(Manager, now, force_check, o[1], o[2]) IN
        /\ current_active_cluster' = r.cur
        /\ last_health_check' = r.lhc
        /\ gac' = GacRec(Manager, now, force_check, r)
        /\ req' = ReqInit
        /\ UNCHANGED <<connection_cache, last_cache_update, stored_at, now>>
        /\ UNCHANGED <<cluster, svcFrame>>

\* do_GET, /health (lines 24-32).
GetHealth ==
    \E o \in Answers(Manager, now, FALSE) :
      LET r == get_active_cluster(Manager, now, FALSE, o[1], o[2]) IN
        /\ current_active_cluster' = r.cur
        /\ last_health_check' = r.lhc
        /\ gac' = GacRec(Manager, now, FALSE, r)
        /\ req' = ReqRec("/health", 200, After(r) # Manager,
                         IF r.probes = <<>> THEN {} ELSE {"GET"})
        /\ UNCHANGED <<connection_cache, last_cache_update, stored_at, now>>
        /\ UNCHANGED <<cluster, svcFrame>>

\* do_GET, /clusters (lines 66-90): two health probes and two look-ups of the
\* SQL DNS, all GETs that assign nothing, around one get_active_cluster.
GetClusters ==
    \E o \in Answers(Manager, now, FALSE) :
      LET r == get_active_cluster(Manager, now, FALSE, o[1], o[2]) IN
        /\ current_active_cluster' = r.cur
        /\ last_health_check' = r.lhc
        /\ gac' = GacRec(Manager, now, FALSE, r)
        /\ req' = ReqRec("/clusters", 200, After(r) # Manager, {"GET"})
        /\ UNCHANGED <<connection_cache, last_cache_update, stored_at, now>>
        /\ UNCHANGED <<cluster, svcFrame>>

\* do_GET, any other path (lines 92-98).
NotFound ==
    /\ req' = ReqRec("other", 404, FALSE, {})
    /\ gac' = GacInit
    /\ UNCHANGED <<current_active_cluster, last_health_check, connection_cache,
                   last_cache_update, stored_at, now>>
    /\ UNCHANGED <<cluster, svcFrame>>

\* get_db_connection_string, lines 208-213: whether the cached string is
\* returned.
CacheHit(key, t) ==
    connection_cache[key] # NotCached /\ t - last_cache_update < cache_ttl

\* do_GET, /connection (lines 34-64), with get_db_connection_string (lines
\* 195-220) and get_connection_string (lines 111-138).  A missing header is
\* answered with 400.  Otherwise the helper asks for the active cluster, then
\* returns the cached string of cache_key or builds one (asking for the
\* active cluster again, and for its SQL DNS) and caches it; the handler asks
\* for the active cluster once more for its response.
GetConnection ==
    \E username \in Usernames \cup {Absent} : \E password \in Passwords \cup {Absent} :
      IF username = Absent \/ password = Absent
      THEN /\ req' = [ReqRec("/connection", 400, FALSE, {})
                        EXCEPT !.username = username, !.password = password]
           /\ gac' = GacInit
           /\ UNCHANGED <<current_active_cluster, last_health_check,
                          connection_cache, last_cache_update, stored_at, now>>
           /\ UNCHANGED <<cluster, svcFrame>>
      ELSE \E o1 \in Answers(Manager, now, FALSE) : \E dns \in BOOLEAN :
           LET r1 == get_active_cluster(Manager, now, FALSE, o1[1], o1[2])
               key == cache_key(username, r1.ret)
               hit == CacheHit(key, now)
           IN
           \E o2 \in (IF hit THEN {o1} ELSE Answers(After(r1), now, FALSE)) :
           LET r2 == IF hit THEN r1
                     ELSE get_active_cluster(After(r1), now, FALSE, o2[1], o2[2])
               conn_str == IF hit THEN connection_cache[key]
                           ELSE IF dns
                                THEN connection_string(username, password, r2.ret)
                                ELSE PRIMARY_CLUSTER_ENDPOINT
           IN
           \E o3 \in Answers(After(r2), now, FALSE) :
           LET r3 == get_active_cluster(After(r2), now, FALSE, o3[1], o3[2]) IN
               /\ connection_cache' =
                      IF hit THEN connection_cache
                      ELSE [connection_cache EXCEPT ![key] = conn_str]
               /\ last_cache_update' = IF hit THEN last_cache_update ELSE now
               /\ stored_at' = IF hit THEN stored_at ELSE [stored_at EXCEPT ![key] = now]
               /\ current_active_cluster' = r3.cur
               /\ last_health_check' = r3.lhc
               /\ gac' = GacRec(After(r2), now, FALSE, r3)
               /\ req' = [ReqRec("/connection", 200,
                                 After(r3) # Manager \/ ~hit,
                                 IF hit /\ r1.probes = <<>> /\ r3.probes = <<>>
                                 THEN {} ELSE {"GET"})
                            EXCEPT !.username = username, !.password = password,
                                   !.conn = conn_str, !.hit = hit,
                                   !.stored = IF hit THEN stored_at[key] ELSE now]
               /\ UNCHANGED now
               /\ UNCHANGED <<cluster, svcFrame>>

\* Time passes.
Tick ==
    /\ now < Epoch + MaxTicks * tick
    /\ now' = now + tick
    /\ req' = ReqInit /\ gac' = GacInit
    /\ UNCHANGED <<current_active_cluster, last_health_check, connection_cache,
                   last_cache_update, stored_at>>
    /\ UNCHANGED <<cluster, svcFrame>>

\* ------------------------------------------------------------------------
\* Functions checked on their own inputs: the health probers on every
\* response, the discoveries on every stream list, the payload of the
\* cutover request on every configuration.

\* What requests.get can do on GET /clusters/{id}: raise, or answer with a
\* status code and a body that is no JSON, or a JSON object whose "state" and
\* "operation_status" are strings, null or missing.
StateValues == {"CREATED", "created", "DELETING", "DELETED", "UPDATING", Absent, Null}
OpValues == {"", "FAILED", "failed", Absent, Null}
Raising(kind) == [kind |-> kind, code |-> 0, body |-> "none", state |-> Absent, op |-> Absent]
Answer(code, body, state, op) ==
    [kind |-> "http", code |-> code, body |-> body, state |-> state, op |-> op]
Responses ==
    { Raising(k) : k \in {"Timeout", "ConnectionError", "RequestException"} }
      \cup { Answer(code, "malformed", Absent, Absent) : code \in {200, 503} }
      \cup { Answer(code, "json", st, op) :
                code \in {200, 503}, st \in StateValues, op \in OpValues }

\* The outcome of a call: what it returns, or the exception it raises.
Return(v) == [exc |-> "none", val |-> v]
Raise(e) == [exc |-> e, val |-> FALSE]

\* dict.get(key, "")
Get(v) == IF v = Absent THEN "" ELSE v

\* The try block of check_primary_cluster_health (lines 32-59): the request
\* raises; or response.json() raises on a body that is no JSON; or .upper()
\* raises on a null; or the state is classified.
unhealthy_states == {"DELETED", "DELETING"}
ProbeBody(resp) ==
    IF resp.kind # "http" THEN Raise(resp.kind)
    ELSE IF resp.code # 200 THEN Return(FALSE)
    ELSE IF resp.body = "malformed" THEN Raise("ValueError")
    ELSE IF Get(resp.state) = Null \/ Get(resp.op) = Null THEN Raise("AttributeError")
    ELSE IF ClassifyHealth(resp.code, Get(resp.state), Get(resp.op)) THEN Return(TRUE)
    ELSE IF Upper(Get(resp.state)) \in unhealthy_states THEN Return(FALSE)
    ELSE Return(FALSE)

\* "except Exception": every exception a request or a body can raise is one;
\* before it, handlers for the two named exceptions only, a faulty variant.
Caught_namedOnly(e) == e \in {"Timeout", "ConnectionError"}
Caught(e) == TRUE

\* try ... except of a prober: a caught exception yields False.
Guarded(out) == IF out.exc # "none" /\ Caught(out.exc) THEN Return(FALSE) ELSE out

\* ClusterMonitor.check_primary_cluster_health on a response.
check_primary_cluster_health(resp) == Guarded(ProbeBody(resp))

\* FailbackManager.check_cluster_health on a response (lines 37-63).
FbProbeBody(resp) ==
    IF resp.kind # "http" THEN Raise(resp.kind)
    ELSE IF resp.code # 200 THEN Return(FALSE)
    ELSE IF resp.body = "malformed" THEN Raise("ValueError")
    ELSE IF Get(resp.state) = Null \/ Get(resp.op) = Null THEN Raise("AttributeError")
    ELSE Return(FbClassifyHealth(resp.code, Get(resp.state), Get(resp.op)))
FbCheckClusterHealth(resp) == Guarded(FbProbeBody(resp))

\* ConnectionManager.get_cluster_connection_info on a response: the body of
\* a 200, None otherwise and on any exception.
get_cluster_connection_info(resp) ==
    IF resp.kind = "http" /\ resp.code = 200 /\ resp.body = "json"
    THEN [none |-> FALSE, state |-> resp.state, op |-> resp.op]
    ELSE [none |-> TRUE, state |-> Absent, op |-> Absent]

\* ConnectionManager.check_cluster_health on a response (lines 59-73): None
\* and {} are falsy.
CmProbeBody(resp) ==
    LET cluster_info == get_cluster_connection_info(resp) IN
      IF cluster_info.none \/ (cluster_info.state = Absent /\ cluster_info.op = Absent)
      THEN Return(FALSE)
      ELSE IF Get(cluster_info.state) = Null \/ Get(cluster_info.op) = Null
      THEN Raise("AttributeError")
      ELSE Return(CmClassifyHealth(200, Get(cluster_info.state), Get(cluster_info.op)))
CmCheckClusterHealth(resp) == Guarded(CmProbeBody(resp))

\* The callers of the two discoveries.
Discoverers == {"ClusterMonitor", "FailbackManager"}

\* The streams a list can hold, and the longest list looked at.
MaxStreams == 2
StreamRecs ==
    [id : {"s1", "s2"}, primary_cluster_id : {"primary", "standby"},
     standby_cluster_id : {"primary", "standby"}]

\* The loop of discover_pcr_stream_id (lines 116-121) and of
\* discover_failback_stream_id (lines 143-148): the id of the first stream of
\* the list from primary p to standby s, None when there is none.
FirstMatch(list, p, s) ==
    LET M == { i \in DOMAIN list :
                 list[i].primary_cluster_id = p /\ list[i].standby_cluster_id = s }
    IN IF M = {} THEN NoId
       ELSE list[CHOOSE i \in M : \A j \in M : i <= j].id

\* discover_pcr_stream_id on the answer to its GET: the list of a 200, or a
\* non-200 or an exception, which yield None.
discover_pcr_stream_id(ok) ==
    IF ok THEN FirstMatch(streams, PRIMARY_CLUSTER_ID, STANDBY_CLUSTER_ID) ELSE NoId

\* discover_failback_stream_id, the same for the failback's pair.
discover_failback_stream_id(ok) ==
    IF ok THEN FirstMatch(streams, failback_primary_id, failback_standby_id) ELSE NoId

\* A field of the caller after a discovery that returned id: the discoveries
\* assign no field; before it, the faulty variant that caches what it found.
AfterDiscovery_cached(field, id) == id
AfterDiscovery(field, id) == field

\* The failover_at argument and FAILOVER_AT_TIMESTAMP: None, "", a timestamp.
CallTimes == {Null, "", "t_call"}
ConfigTimes == {Null, "", "t_cfg"}
\* Python truthiness of a string or None.
NonEmpty(v) == v # Null /\ v # ""

\* "Config.FAILOVER_TO_LATEST and not failover_at"; before it, the faulty
\* variant that does not look at the configuration.
UseLatest_always(to_latest, failover_at) == ~NonEmpty(failover_at)
UseLatest(to_latest, failover_at) == to_latest /\ ~NonEmpty(failover_at)

\* "failover_at or Config.FAILOVER_AT_TIMESTAMP"; before it, the faulty
\* variant in which the configured timestamp comes first.
Timestamp_configFirst(failover_at, configured) ==
    IF NonEmpty(configured) THEN configured ELSE failover_at
Timestamp(failover_at, configured) ==
    IF NonEmpty(failover_at) THEN failover_at ELSE configured

\* The payload of initiate_failover (lines 148-158).
FailoverPayload(failover_at) ==
    IF UseLatest(FAILOVER_TO_LATEST, failover_at)
    THEN [status |-> "FAILING_OVER", failover_at |-> Absent]
    ELSE LET timestamp == Timestamp(failover_at, FAILOVER_AT_TIMESTAMP) IN
           IF ~NonEmpty(timestamp)
           THEN [status |-> "FAILING_OVER", failover_at |-> Absent]
           ELSE [status |-> "FAILING_OVER", failover_at |-> timestamp]

\* The payload of initiate_failback (lines 223-233).
FailbackPayload(failover_at) ==
    IF UseLatest(FAILOVER_TO_LATEST, failover_at)
    THEN [status |-> "FAILING_OVER", failover_at |-> Absent]
    ELSE LET timestamp == Timestamp(failover_at, FAILOVER_AT_TIMESTAMP) IN
           IF ~NonEmpty(timestamp)
           THEN [status |-> "FAILING_OVER", failover_at |-> Absent]
           ELSE [status |-> "FAILING_OVER", failover_at |-> timestamp]

\* History of the discoveries answered with the list as it is: how many
\* (counted up to two) and the ids they returned.
NoneFound == [w \in Discoverers |-> [calls |-> 0, ids |-> {}]]

\* History of the last function applied: which, on what, with what outcome.
FnInit ==
    [op |-> "none", who |-> "none", resp |-> Raising("none"),
     monitor |-> Return(FALSE), failback |-> Return(FALSE), manager |-> Return(FALSE),
     ok |-> FALSE, id |-> NoId, methods |-> {},
     failover_at |-> Null, payload |-> [status |-> "none", failover_at |-> Absent]]

\* ConnectionManager.__init__ (lines 23-35) and
\* ApplicationConnectionHelper.__init__ (lines 188-193): nothing probed,
\* nothing cached.  time.time() is far above both intervals.
SvcInit ==
    /\ current_active_cluster = NoId
    /\ last_health_check = [c \in {"primary", "standby"} |-> 0]
    /\ connection_cache = [k \in CacheKeys |-> NotCached]
    /\ last_cache_update = 0
    /\ stored_at = [k \in CacheKeys |-> 0]
    /\ retry = RetryIdle
    /\ service = ServiceIdle
    /\ scenario = ScenarioIdle
    /\ now = Epoch
    /\ req = ReqInit
    /\ gac = GacInit

\* The configuration as config.py's defaults leave it, and no function applied.
FnIdle ==
    /\ FAILOVER_TO_LATEST = TRUE /\ FAILOVER_AT_TIMESTAMP = Null
    /\ streams = <<>>
    /\ fn = FnInit
    /\ found = NoneFound

\* The state when a command starts: ClusterMonitor.__init__ (lines 17-25) and
\* FailbackManager.__init__ (lines 21-33), the configuration, and the remote
\* service as the command finds it.  A full failback creates its stream.
Init ==
    /\ SvcInit /\ FnIdle /\ callbacks = {} /\ accepted_run = FALSE
    /\ PRIMARY_CLUSTER_ID = "primary" /\ STANDBY_CLUSTER_ID = "standby"
    /\ failback_primary_id = STANDBY_CLUSTER_ID
    /\ failback_standby_id = PRIMARY_CLUSTER_ID
    /\ running = TRUE /\ sig_pc = "none"
    /\ cmd \in Cmds
    /\ wait \in (IF cmd = "failback_full" THEN BOOLEAN ELSE {FALSE})
    /\ pc = StartPc(cmd)
    /\ ret = "none" /\ poll_ret = "none"
    /\ threshold \in (IF cmd = "monitor" THEN 1..MaxThreshold ELSE {1})
    /\ cycles = 0
    /\ failure_count = 0
    /\ pcr_stream_id \in (IF cmd \in {"monitor", "failover"} THEN {NoId, StreamId}
                          ELSE {NoId})
    /\ failback_stream_id = NoId
    /\ elapsed_time = 0 /\ activated_at = Absent
    /\ cluster \in [{"primary", "standby"} -> ClusterConds]
    /\ \A c \in {"primary", "standby"} \ Probed : cluster[c] = HealthyCond
    /\ stream \in (IF cmd \in {"failback_full", "failback_create"}
                   THEN {[status |-> NoStream, activated_at |-> Absent]}
                   ELSE StreamInits)
    /\ old_stream \in (IF cmd \in {"failback_full", "failback_initiate"}
                       THEN BOOLEAN ELSE {FALSE})
    /\ inv = InvInit
    /\ lastFetched = "none"
    /\ failedAttempt = FALSE
    /\ scen = 0 /\ seen = "none"
    /\ debounced = 0 /\ unhealthy_run = 0
    /\ wall = 0

Next ==
    \/ LoopIter
    \/ Probe1
    \/ Delay
    \/ Reprobe
    \/ CheckStream
    \/ Initiate
    \/ MonitorFailoverProgress
    \/ MonitorFailoverSleep
    \/ CycleSleep
    \/ signal_handler
    \/ LoopExit
    \/ CmdFailoverInfo
    \/ CmdFailoverConfirm
    \/ CmdFailbackConfirm
    \/ FullHealth1
    \/ FullHealth2
    \/ FullCreate
    \/ CmdCreateStream
    \/ WaitForReplicationReady
    \/ WaitForReplicationSleep
    \/ InitiateFailback
    \/ MonitorFailbackProgress
    \/ MonitorFailbackSleep
    \/ ClusterChange
    \/ StreamChange

Spec == Init /\ [][Next]_vars

\* ------------------------------------------------------------------------
\* The sidecar on its own: no command of the orchestrator runs, the clusters
\* change under it.

\* No command is running.
CmdQuiet ==
    /\ PRIMARY_CLUSTER_ID = "primary" /\ STANDBY_CLUSTER_ID = "standby"
    /\ failback_primary_id = STANDBY_CLUSTER_ID
    /\ failback_standby_id = PRIMARY_CLUSTER_ID
    /\ running = TRUE /\ sig_pc = "none"
    /\ cmd = "none" /\ wait = FALSE /\ pc = "done" /\ accepted_run = FALSE
    /\ ret = "none" /\ poll_ret = "none"
    /\ threshold = 1 /\ cycles = 0 /\ failure_count = 0
    /\ failback_stream_id = NoId
    /\ elapsed_time = 0 /\ activated_at = Absent
    /\ old_stream = FALSE
    /\ inv = InvInit
    /\ lastFetched = "none"
    /\ failedAttempt = FALSE
    /\ scen = 0 /\ seen = "none"
    /\ debounced = 0 /\ unhealthy_run = 0
    /\ wall = 0

\* No command is running, no stream id is configured and no stream exists.
CmdIdle ==
    /\ CmdQuiet
    /\ pcr_stream_id = NoId
    /\ stream = [status |-> NoStream, activated_at |-> Absent]

\* What the clusters are under the sidecar: up, or being deleted.
SvcConds == {HealthyCond, [state |-> "DELETING", op |-> ""]}

\* A cluster's state changes under the sidecar.
ClusterTurn ==
    /\ \E c \in {"primary", "standby"} : \E cond \in SvcConds \ {cluster[c]} :
         cluster' = [cluster EXCEPT ![c] = cond]
    /\ req' = ReqInit /\ gac' = GacInit
    /\ UNCHANGED <<current_active_cluster, last_health_check, connection_cache,
                   last_cache_update, stored_at, now, svcFrame>>

ServiceInit ==
    /\ SvcInit /\ FnIdle /\ callbacks = {} /\ CmdIdle
    /\ cluster \in [{"primary", "standby"} -> SvcConds]

ServiceNext ==
    \/ GetActiveCluster
    \/ GetHealth
    \/ GetConnection
    \/ GetClusters
    \/ NotFound
    \/ Tick
    \/ ClusterTurn

SpecService == ServiceInit /\ [][ServiceNext]_vars

\* ------------------------------------------------------------------------
\* The helper called by an application in its own process: a sequence of
\* get_db_connection_string calls while time passes, the clusters fail and
\* recover, and the active cluster is refreshed.

\* How often the clock advances under the helper: past cache_ttl.
MaxCacheTicks == 3

\* get_db_connection_string (lines 195-220) with get_connection_string (lines
\* 111-138): the helper asks for the active cluster, then returns the cached
\* string of cache_key or builds one (asking for the active cluster again,
\* and for its SQL DNS) and caches it.
HelperCall(username, password) ==
    \E o1 \in Answers(Manager, now, FALSE) : \E dns \in BOOLEAN :
      LET r1 == get_active_cluster(Manager, now, FALSE, o1[1], o1[2])
          key == cache_key(username, r1.ret)
          hit == CacheHit(key, now)
      IN
      \E o2 \in (IF hit THEN {o1} ELSE Answers(After(r1), now, FALSE)) :
      LET r2 == IF hit THEN r1
                ELSE get_active_cluster(After(r1), now, FALSE, o2[1], o2[2])
          conn_str == IF hit THEN connection_cache[key]
                      ELSE IF dns
                           THEN connection_string(username, password, r2.ret)
                           ELSE PRIMARY_CLUSTER_ENDPOINT
      IN
          /\ connection_cache' =
                 IF hit THEN connection_cache
                 ELSE [connection_cache EXCEPT ![key] = conn_str]
          /\ last_cache_update' = IF hit THEN last_cache_update ELSE now
          /\ stored_at' = IF hit THEN stored_at ELSE [stored_at EXCEPT ![key] = now]
          /\ current_active_cluster' = r2.cur
          /\ last_health_check' = r2.lhc
          /\ gac' = GacRec(IF hit THEN Manager ELSE After(r1), now, FALSE, r2)
          /\ req' = [ReqRec("call", 0, After(r2) # Manager \/ ~hit,
                            IF hit /\ r1.probes = <<>> THEN {} ELSE {"GET"})
                       EXCEPT !.username = username, !.password = password,
                              !.conn = conn_str, !.hit = hit,
                              !.stored = IF hit THEN stored_at[key] ELSE now]

\* An application calls get_db_connection_string.
GetDbConnectionString ==
    /\ \E username \in Usernames : \E password \in Passwords :
         HelperCall(username, password)
    /\ UNCHANGED now
    /\ UNCHANGED <<cluster, svcFrame>>

\* Time passes under the helper.
CacheTick ==
    /\ now < Epoch + MaxCacheTicks * tick
    /\ now' = now + tick
    /\ req' = ReqInit /\ gac' = GacInit
    /\ UNCHANGED <<current_active_cluster, last_health_check, connection_cache,
                   last_cache_update, stored_at>>
    /\ UNCHANGED <<cluster, svcFrame>>

CacheNext ==
    \/ GetDbConnectionString
    \/ GetActiveCluster
    \/ CacheTick
    \/ ClusterTurn

SpecCache == ServiceInit /\ [][CacheNext]_vars

\* ------------------------------------------------------------------------
\* get_db_connection_with_retry (connection_manager.py 222-242), one call
\* per behaviour.  The function sleeps between its attempts, so an attempt
\* and the sleep with its forced refresh are steps of their own.

\* max_retries is drawn from 0..MaxRetries (its default is 3).
MaxRetries == 3
\* time.sleep(2)
retry_sleep == 2

\* "if attempt < max_retries - 1": another attempt follows the failed one;
\* before it, the faulty variant that sleeps and refreshes after the last
\* attempt too.
MayRetry_afterLast(attempt, max_retries) == attempt < max_retries
MayRetry(attempt, max_retries) == attempt < max_retries - 1

\* The call: its arguments.  With no username (and none in the environment)
\* every attempt raises ValueError.
RetryCall ==
    /\ retry.pc = "idle"
    /\ \E mr \in 0..MaxRetries : \E username \in Usernames \cup {Absent} :
         retry' = [RetryIdle EXCEPT !.pc = "attempt", !.max_retries = mr,
                                    !.username = username]
    /\ req' = ReqInit /\ gac' = GacInit
    /\ UNCHANGED <<current_active_cluster, last_health_check, connection_cache,
                   last_cache_update, stored_at, now>>
    /\ UNCHANGED <<cluster, restFrame, service>>

\* "except Exception" of the wrapper (lines 233-240) on an exception of the
\* kind given: it is kept for another attempt, or raised again.
Failed(kind) ==
    LET e == [kind |-> kind, attempt |-> retry.attempt]
        again == MayRetry(retry.attempt, retry.max_retries)
    IN retry' = [retry EXCEPT !.attempts = @ + 1, !.excs = Append(@, e),
                              !.pc = IF again THEN "sleep" ELSE "raised",
                              !.exc = IF again THEN @ ELSE e]

\* get_db_connection_string raising out of get_cluster_sql_dns (line 54): on
\* a miss, after its two get_active_cluster calls, the GET of the cluster
\* answers 200 with a JSON body that is no object, and .get raises
\* AttributeError; nothing is cached.
LookupRaises ==
    \E o1 \in Answers(Manager, now, FALSE) :
      LET r1 == get_active_cluster(Manager, now, FALSE, o1[1], o1[2]) IN
      /\ ~CacheHit(cache_key(retry.username, r1.ret), now)
      /\ \E o2 \in Answers(After(r1), now, FALSE) :
         LET r2 == get_active_cluster(After(r1), now, FALSE, o2[1], o2[2]) IN
           /\ current_active_cluster' = r2.cur
           /\ last_health_check' = r2.lhc
           /\ gac' = GacRec(After(r1), now, FALSE, r2)
           /\ req' = ReqRec("call", 0, After(r2) # Manager, {"GET"})
           /\ UNCHANGED <<connection_cache, last_cache_update, stored_at>>

\* Lines 229-233 and 242: the test of the for loop and one attempt.  When the
\* loop is over without a return or a raise, the exception of line 242 is
\* raised.
RetryAttempt ==
    /\ retry.pc = "attempt"
    /\ IF retry.attempt >= retry.max_retries
       THEN /\ retry' = [retry EXCEPT !.pc = "raised",
                                      !.exc = [kind |-> "Exception", attempt |-> -1]]
            /\ UNCHANGED <<current_active_cluster, last_health_check,
                           connection_cache, last_cache_update, stored_at, req, gac>>
       ELSE \/ /\ retry.username = Absent
               /\ Failed("ValueError")
               /\ req' = ReqInit /\ gac' = GacInit
               /\ UNCHANGED <<current_active_cluster, last_health_check,
                              connection_cache, last_cache_update, stored_at>>
            \/ /\ retry.username # Absent
               /\ \E password \in Passwords : HelperCall(retry.username, password)
               /\ retry' = [retry EXCEPT !.attempts = @ + 1, !.pc = "returned",
                                         !.ret = req'.conn]
            \/ /\ retry.username # Absent
               /\ LookupRaises
               /\ Failed("AttributeError")
    /\ UNCHANGED now
    /\ UNCHANGED <<cluster, restFrame, service>>

\* Lines 236-238: time.sleep(2) and get_active_cluster(force_check=True); the
\* for loop goes to its next value.
RetryRefresh ==
    /\ retry.pc = "sleep"
    /\ now' = now + retry_sleep
    /\ \E o \in Answers(Manager, now + retry_sleep, TRUE) :
         LET r == get_active_cluster(Manager, now + retry_sleep, TRUE, o[1], o[2]) IN
           /\ current_active_cluster' = r.cur
           /\ last_health_check' = r.lhc
           /\ gac' = GacRec(Manager, now + retry_sleep, TRUE, r)
    /\ req' = ReqInit
    /\ retry' = [retry EXCEPT !.attempt = @ + 1, !.refreshes = @ + 1,
                              !.pc = "attempt"]
    /\ UNCHANGED <<connection_cache, last_cache_update, stored_at>>
    /\ UNCHANGED <<cluster, restFrame, service>>

RetryNext ==
    \/ RetryCall
    \/ RetryAttempt
    \/ RetryRefresh

SpecRetry == ServiceInit /\ [][RetryNext]_vars

\* ------------------------------------------------------------------------
\* The automated test scenario (src/tests/test_automated_scenario.py): its
\* monitoring loop with the two scheduled actions, on a ClusterMonitor of its
\* own.  The sleeps of an iteration separate its steps.

\* Iterations of monitoring_loop that are explored (check_count).
MaxChecks == 10
\* Config.HEALTH_CHECK_INTERVAL (30 by default, set by the environment).
Intervals == {30, 50}
\* "elapsed >= 120", "elapsed >= 240", and time.sleep(5) after a disruption.
disruption_after == 120
failover_after == 240
disruption_sleep == 5

\* "elapsed >= ... and not self...._triggered" of lines 166 and 169; before
\* it, the faulty variant that does not look at the flag.
Due_unguarded(elapsed, after, triggered) == elapsed >= after
Due(elapsed, after, triggered) == elapsed >= after /\ ~triggered

\* get_replication_info (lines 46-55): None when the fetch failed or the body
\* is empty, else the status as it was sent, "UNKNOWN" when it is missing.
RepStatus(info) ==
    IF ~Truthy(info) THEN "None"
    ELSE IF info.status = Absent THEN "UNKNOWN" ELSE info.status

\* "rep_info['status'] not in ['REPLICATING', 'STARTING']" negated (line 117).
ScenarioFailoverable(status) == status \in {"REPLICATING", "STARTING"}

scenFrame ==
    <<svcVars, fnVars, callbacks, appVars, runVars, cmdVars, failure_count,
      failback_stream_id, cluster, old_stream, histVars>>

\* run (lines 189-192): start_time is set and the loop is entered.
ScenarioRun ==
    /\ scenario.pc = "idle"
    /\ \E i \in Intervals :
         scenario' = [scenario EXCEPT !.pc = "test", !.interval = i]
    /\ UNCHANGED <<pcr_stream_id, stream, scenFrame>>

\* Lines 150-164: the loop test, elapsed, the health probe (its result is
\* only logged) and get_replication_info for the status line, whose format
\* raises TypeError on a null status; run catches that and the test ends.
ScenarioCheck ==
    /\ scenario.pc = "test"
    /\ IF ~scenario.running \/ scenario.check_count >= MaxChecks
       THEN /\ scenario' = [scenario EXCEPT !.pc = "ended"]
            /\ UNCHANGED pcr_stream_id
       ELSE \E id \in ResolveIds(pcr_stream_id) : \E info \in GetResults(id) :
            /\ pcr_stream_id' = id
            /\ scenario' =
                 [scenario EXCEPT !.check_count = @ + 1,
                                  !.elapsed = scenario.t,
                                  !.pc = IF RepStatus(info) = Null THEN "ended"
                                         ELSE "disrupt"]
    /\ UNCHANGED <<stream, scenFrame>>

\* Lines 166-167 and trigger_disruption (64-97): disrupt_cluster answers
\* whether the PUT was accepted; on success the flag is set and the scenario
\* sleeps 5 s.  The fetches made for the log assign nothing but a
\* discovered id.
ScenarioDisrupt ==
    /\ scenario.pc = "disrupt"
    /\ IF Due(scenario.elapsed, disruption_after, scenario.disruption_triggered)
       THEN \E id \in ResolveIds(pcr_stream_id) : \E success \in BOOLEAN :
            /\ pcr_stream_id' = id
            /\ scenario' =
                 IF success
                 THEN [scenario EXCEPT
                         !.pc = "failover", !.disruption_triggered = TRUE,
                         !.t = @ + disruption_sleep,
                         !.disruptions = @ + 1,
                         !.disrupted_at = IF @ = -1 THEN scenario.elapsed ELSE @]
                 ELSE [scenario EXCEPT !.pc = "failover"]
       ELSE /\ scenario' = [scenario EXCEPT !.pc = "failover"]
            /\ UNCHANGED pcr_stream_id
    /\ UNCHANGED <<stream, scenFrame>>

\* Lines 169-170 and trigger_failover_with_consistency (99-144): the status
\* is fetched again and tested as it was sent; initiate_failover sends the
\* request when it has an id (with or without failover_at, by the lag
\* reported); on success the flag is set and monitor_failover_progress runs,
\* which returns, times out after max_wait_time, or raises on a null status,
\* which ends the test.
ScenarioFailover ==
    /\ scenario.pc = "failover"
    /\ IF Due(scenario.elapsed, failover_after, scenario.failover_triggered)
       THEN \E id \in ResolveIds(pcr_stream_id) : \E info \in GetResults(id) :
            IF ~ScenarioFailoverable(RepStatus(info))
            THEN /\ pcr_stream_id' = id
                 /\ scenario' = [scenario EXCEPT !.pc = "sleep"]
                 /\ UNCHANGED stream
            ELSE \E r \in PatchResults : \E poll \in {"True", "False", "raise"} :
                 /\ pcr_stream_id' = id
                 /\ stream' = r[2]
                 /\ scenario' =
                      [scenario EXCEPT
                         !.last = [called |-> TRUE, elapsed |-> scenario.elapsed,
                                   status |-> RepStatus(info),
                                   before |-> scenario.failover_triggered,
                                   patch |-> TRUE, success |-> r[1]],
                         !.failover_triggered = @ \/ r[1],
                         !.successes = @ + (IF r[1] THEN 1 ELSE 0),
                         !.t = @ + (IF r[1] /\ poll = "False" THEN max_wait_time ELSE 0),
                         !.pc = IF r[1] /\ poll = "raise" THEN "ended" ELSE "sleep"]
       ELSE /\ scenario' = [scenario EXCEPT !.pc = "sleep"]
            /\ UNCHANGED <<pcr_stream_id, stream>>
    /\ UNCHANGED scenFrame

\* Line 172: time.sleep(Config.HEALTH_CHECK_INTERVAL).
ScenarioSleep ==
    /\ scenario.pc = "sleep"
    /\ scenario' = [scenario EXCEPT !.pc = "test", !.t = @ + scenario.interval]
    /\ UNCHANGED <<pcr_stream_id, stream, scenFrame>>

\* signal_handler (lines 42-44).
ScenarioSignal ==
    /\ scenario.pc \notin {"idle", "ended"}
    /\ scenario.running
    /\ scenario' = [scenario EXCEPT !.running = FALSE]
    /\ UNCHANGED <<pcr_stream_id, stream, scenFrame>>

\* The replication stream makes progress while the test runs.
ScenarioStreamChange ==
    /\ scenario.pc \notin {"idle", "ended"}
    /\ \E st \in NextStatuses(stream.status) :
         \E at \in (IF st = "COMPLETED" THEN ActivatedTimes ELSE {Absent}) :
            stream' = [status |-> st, activated_at |-> at]
    /\ UNCHANGED <<scenario, pcr_stream_id, scenFrame>>

\* The scenario is constructed; the stream exists and its id is configured
\* or to be discovered.
ScenarioInit ==
    /\ SvcInit /\ FnIdle /\ callbacks = {} /\ CmdQuiet
    /\ cluster = [c \in {"primary", "standby"} |-> HealthyCond]
    /\ pcr_stream_id \in {NoId, StreamId}
    /\ stream \in {[status |-> st, activated_at |-> Absent] :
                     st \in {"STARTING", "REPLICATING"}}

ScenarioNext ==
    \/ ScenarioRun
    \/ ScenarioCheck
    \/ ScenarioDisrupt
    \/ ScenarioFailover
    \/ ScenarioSleep
    \/ ScenarioSignal
    \/ ScenarioStreamChange

SpecScenario == ScenarioInit /\ [][ScenarioNext]_vars

\* ------------------------------------------------------------------------
\* SeamlessFailoverService.run (failover_service.py 122-145) and its signal
\* handler.  handle_request blocks until a request has arrived and handles
\* it; a signal whose handler returns does not end the wait, which the
\* interpreter resumes.

\* The requests that arrive in a behaviour.
MaxRequests == 3
Paths == {"/health", "/connection", "/clusters", "other"}

\* Where run() is when signal_handler has returned: where it was; before it,
\* the faulty variant in which the signal ends the wait for a request.
AfterSignal_interrupted(at) == "test"
AfterSignal(at) == at

\* "while self.running" (line 139); when it fails, the finally clause closes
\* the server (143-145).
LoopTest ==
    /\ service.pc = "test"
    /\ service' = [service EXCEPT !.pc = IF service.running THEN "waiting"
                                         ELSE "closed"]
    /\ UNCHANGED <<svcVars, retry, cluster, restFrame>>

\* server.handle_request() (line 140): a request arrives and is handled.
HandleRequest ==
    /\ service.pc = "waiting"
    /\ Len(service.log) < MaxRequests
    /\ \E path \in Paths :
         service' = [service EXCEPT !.log = Append(@, path),
                                    !.after = @ + (IF service.signalled THEN 1 ELSE 0),
                                    !.pc = "test"]
    /\ UNCHANGED <<svcVars, retry, cluster, restFrame>>

\* signal_handler (lines 117-120), on SIGINT or SIGTERM at any time before
\* the server is closed.
SignalHandler ==
    /\ service.pc # "closed"
    /\ service' = [service EXCEPT !.running = FALSE, !.signalled = TRUE,
                                  !.sig_at = IF service.signalled THEN @
                                             ELSE service.pc,
                                  !.pc = AfterSignal(service.pc)]
    /\ UNCHANGED <<svcVars, retry, cluster, restFrame>>

SidecarNext ==
    \/ LoopTest
    \/ HandleRequest
    \/ SignalHandler

\* The sidecar is constructed and run() has reached its loop; the clusters are up.
SidecarInit ==
    /\ SvcInit /\ FnIdle /\ callbacks = {} /\ CmdIdle
    /\ cluster = [c \in {"primary", "standby"} |-> HealthyCond]

SpecSidecar == SidecarInit /\ [][SidecarNext]_vars

\* ------------------------------------------------------------------------
\* The functions on their own: each step applies one function to one input.
\* The probers and the payloads are applied under a configuration drawn at
\* the start; the discoveries are applied to a stream list that grows.

\* What no application of a function touches.
fnFrame ==
    <<svcVars, appVars, scenario, callbacks, runVars, cmdVars, envVars, histVars, FAILOVER_TO_LATEST,
      FAILOVER_AT_TIMESTAMP>>

\* The three health checks on one response.
ApplyProbe ==
    /\ \E resp \in Responses :
         fn' = [FnInit EXCEPT !.op = "probe", !.resp = resp,
                              !.monitor = check_primary_cluster_health(resp),
                              !.failback = FbCheckClusterHealth(resp),
                              !.manager = CmCheckClusterHealth(resp)]
    /\ UNCHANGED <<fnFrame, fieldVars, streams, found>>

\* One discovery, answered with the list (ok) or not.
ApplyDiscover ==
    /\ \E who \in Discoverers : \E ok \in BOOLEAN :
         LET id == IF who = "ClusterMonitor" THEN discover_pcr_stream_id(ok)
                   ELSE discover_failback_stream_id(ok)
         IN /\ fn' = [FnInit EXCEPT !.op = "discover", !.who = who, !.ok = ok,
                                    !.id = id, !.methods = {"GET"}]
            /\ found' = IF ok
                        THEN [found EXCEPT ![who] =
                                [calls |-> IF @.calls < 2 THEN @.calls + 1 ELSE 2,
                                 ids |-> @.ids \cup {id}]]
                        ELSE found
            /\ pcr_stream_id' = IF who = "ClusterMonitor"
                                THEN AfterDiscovery(pcr_stream_id, id)
                                ELSE pcr_stream_id
            /\ failback_stream_id' = IF who = "FailbackManager"
                                     THEN AfterDiscovery(failback_stream_id, id)
                                     ELSE failback_stream_id
    /\ UNCHANGED <<fnFrame, failure_count, streams>>

\* The payload of one cutover request.
ApplyPayload ==
    /\ \E who \in {"initiate_failover", "initiate_failback"} :
       \E failover_at \in CallTimes :
         fn' = [FnInit EXCEPT !.op = "payload", !.who = who,
                              !.failover_at = failover_at,
                              !.payload = IF who = "initiate_failover"
                                          THEN FailoverPayload(failover_at)
                                          ELSE FailbackPayload(failover_at)]
    /\ UNCHANGED <<fnFrame, fieldVars, streams, found>>

\* A stream is created on the remote service: the list grows.
StreamCreated ==
    /\ Len(streams) < MaxStreams
    /\ \E r \in StreamRecs : streams' = Append(streams, r)
    /\ found' = NoneFound
    /\ fn' = FnInit
    /\ UNCHANGED <<fnFrame, fieldVars>>

FnInputs ==
    /\ SvcInit /\ callbacks = {} /\ CmdIdle
    /\ cluster = [c \in {"primary", "standby"} |-> HealthyCond]
    /\ FAILOVER_TO_LATEST \in BOOLEAN
    /\ FAILOVER_AT_TIMESTAMP \in ConfigTimes
    /\ streams = <<>>
    /\ fn = FnInit
    /\ found = NoneFound

FnNext ==
    \/ ApplyProbe
    \/ ApplyPayload

SpecFn == FnInputs /\ [][FnNext]_vars

DiscoveryInit ==
    /\ SvcInit /\ callbacks = {} /\ CmdIdle /\ FnIdle
    /\ cluster = [c \in {"primary", "standby"} |-> HealthyCond]

DiscoveryNext ==
    \/ ApplyDiscover
    \/ StreamCreated

SpecDiscovery == DiscoveryInit /\ [][DiscoveryNext]_vars

\* ------------------------------------------------------------------ claims

PollerPcs == {"mfp", "mfp_sleep", "mbp", "mbp_sleep"}
FailoverableStatuses == {"STARTING", "REPLICATING"}

\* C1: a failover request of detect_and_handle_failure is sent only after, in
\* this order, the counter reached the threshold (it is >= FAILURE_THRESHOLD
\* after the increment), the FAILOVER_DELAY wait returned, and the re-probe
\* returned not-healthy, all in the same invocation.
C1_DebounceBeforeFailover ==
    cmd = "monitor" =>
        /\ inv.patch =>
             /\ inv.probe1 = "unhealthy" /\ failure_count >= threshold
             /\ inv.delayed
             /\ inv.reprobe = "unhealthy"
        /\ (inv.reprobe # "none" \/ pc = "reprobe") => inv.delayed
        /\ (pc = "delay" \/ inv.delayed) => inv.probe1 = "unhealthy"
        /\ (pc = "delay" \/ (inv.delayed /\ inv.reprobe # "healthy"))
             => failure_count >= threshold

C1_Witness == cmd = "monitor" /\ inv.patch /\ inv.accepted /\ threshold = MaxThreshold

\* C2 as stated: if the primary cluster is Healthy at some moment strictly
\* inside the debounce delay, the invocation issues no failover request.
C2_Original == (cmd = "monitor" /\ inv.hwin) => ~inv.patch

\* C2 amended: when the primary cluster was Healthy inside the debounce
\* delay, the invocation issues a failover request only if the re-probe made
\* when the delay has elapsed returns not-healthy; a healthy re-probe cancels.
C2_ReprobeDecides ==
    (cmd = "monitor" /\ inv.hwin) =>
        /\ inv.patch => inv.reprobe = "unhealthy"
        /\ inv.reprobe = "healthy" => (~inv.patch /\ ret = "False")
        /\ pc \in {"check_stream", "initiate"} \cup PollerPcs
             => inv.reprobe = "unhealthy"

C2_Witness ==
    cmd = "monitor" /\ inv.hwin /\ inv.reprobe = "healthy" /\ pc = "cycle_sleep"

\* C3 as stated: no entry point sends a cutover request for a stream whose
\* last fetched status is outside {STARTING, REPLICATING}.
C3_Original ==
    [][(inv'.patch /\ ~inv.patch) =>
          lastFetched \in FailoverableStatuses \cup {"none"}]_vars

\* C4: when the first probe or the re-probe of an invocation returns Healthy,
\* the invocation returns False with failure_count = 0 and has sent no
\* failover request.
C4_HealthyResets ==
    (cmd = "monitor" /\ (inv.probe1 = "healthy" \/ inv.reprobe = "healthy")) =>
        /\ failure_count = 0
        /\ ret = "False" /\ pc = "cycle_sleep"
        /\ ~inv.patch

\* threshold = 3, three unhealthy probes, Healthy at the re-probe.
C4_Witness ==
    /\ cmd = "monitor" /\ threshold = 3 /\ cycles = 3
    /\ inv.probe1 = "unhealthy" /\ inv.delayed /\ inv.reprobe = "healthy"
    /\ failure_count = 0 /\ ret = "False" /\ ~inv.patch

\* C5 as stated: failure_count <= FAILURE_THRESHOLD in every state of the loop.
C5_Original == cmd = "monitor" => failure_count <= threshold

\* C5 amended: failure_count exceeds FAILURE_THRESHOLD only by the number of
\* debounce phases that ended with a not-healthy re-probe since the last
\* reset; the debounce phase is entered exactly when the counter after the
\* increment is >= the threshold, the first time when it is equal to it.
C5_CountBound ==
    cmd = "monitor" =>
        /\ failure_count <= threshold + debounced
        /\ pc = "delay" => failure_count >= threshold
        /\ (pc = "delay" /\ debounced = 0) => failure_count = threshold
        /\ (pc = "cycle_sleep" /\ inv.probe1 = "unhealthy" /\ ~inv.delayed)
             => failure_count < threshold

C5_Witness ==
    cmd = "monitor" /\ pc = "delay" /\ failure_count = threshold + 1 /\ debounced = 1

C7_Original ==
    (cmd = "monitor" /\ inv.patch) =>
        (pcr_stream_id # NoId /\ inv.fetched \in FailoverableStatuses)

\* C8 as stated: once a failover attempt of the monitor loop has failed, the
\* loop sends no further cutover request.
C8_Original ==
    [][(cmd = "monitor" /\ failedAttempt) => ~(inv'.patch /\ ~inv.patch)]_vars

\* C9: a progress poller returns True exactly when one of its fetches, made
\* before the bound is exhausted, returns COMPLETED, and it logs the
\* activated_at of that response; it returns False only with the bound
\* exhausted and no COMPLETED fetched.  For the fetched sequence REPLICATING,
\* FAILING_OVER, FAILING_OVER, COMPLETED it returns True at the fourth poll.
C9_PollerResult ==
    inv.accepted =>
        /\ poll_ret = "True" =>
             /\ seen = "COMPLETED"
             /\ elapsed_time < max_wait_time
             /\ activated_at = stream.activated_at /\ activated_at \in ActivatedTimes
        /\ seen = "COMPLETED" => poll_ret = "True"
        /\ poll_ret = "False" => (seen # "COMPLETED" /\ elapsed_time >= max_wait_time)
        /\ scen = Len(Scenario) =>
             (poll_ret = "True" /\ elapsed_time = (Len(Scenario) - 1) * check_interval)

C9_Witness ==
    /\ cmd = "monitor" /\ inv.accepted /\ scen = Len(Scenario)
    /\ poll_ret = "True" /\ ret = "True" /\ activated_at = "t2"

\* C10 as stated: a progress poller that observes FAILED or CANCELLED stops
\* and reports failure at that observation.
C10_Original ==
    (inv.accepted /\ seen \in {"FAILED", "CANCELLED"}) =>
        (pc \notin PollerPcs /\ poll_ret = "False")

\* C11 as stated: the value a progress poller returns tells success, failure
\* and timeout apart: True only with COMPLETED observed, and False, which is
\* what it returns when the bound is exhausted, never with FAILED or
\* CANCELLED observed.
C11_Original ==
    (inv.accepted /\ poll_ret \in {"True", "False"}) =>
        /\ poll_ret = "True" <=> seen = "COMPLETED"
        /\ poll_ret = "False" => seen \notin {"FAILED", "CANCELLED"}

FailbackCmds == {"failback_create", "failback_initiate", "failback_full"}
AfterCreatePcs == {"wrr", "wrr_sleep", "fb_initiate", "mbp", "mbp_sleep"}

\* C12: full_failback_process sends no POST and no PATCH unless both the
\* active cluster and the original primary were probed healthy before in the
\* invocation; a probe that is not healthy makes it return False with no
\* stream created.
C12_HealthBeforeCreate ==
    cmd = "failback_full" =>
        /\ (inv.post > 0 \/ inv.patch \/ pc \in {"ff_create"} \cup AfterCreatePcs)
             => (inv.probe1 = "healthy" /\ inv.reprobe = "healthy")
        /\ pc = "ff_health2" => inv.probe1 = "healthy"
        /\ (inv.probe1 = "unhealthy" \/ inv.reprobe = "unhealthy")
             => /\ pc = "done" /\ ret = "False"
                /\ inv.post = 0 /\ ~inv.patch /\ stream.status = NoStream

C12_Witness ==
    /\ cmd = "failback_full" /\ inv.confirmed
    /\ inv.probe1 = "healthy" /\ inv.reprobe = "unhealthy"
    /\ pc = "done" /\ ret = "False" /\ inv.post = 0

\* Every phase of the full failback succeeded.
AllPhases ==
    /\ inv.probe1 = "healthy" /\ inv.reprobe = "healthy"
    /\ inv.post = 1 /\ inv.created # NoId
    /\ wait => inv.ready
    /\ inv.patch /\ inv.accepted
    /\ poll_ret = "True" /\ seen = "COMPLETED"

C14_ReadyBeforeCutover ==
    (cmd = "failback_full" /\ wait) =>
        /\ (inv.patch \/ pc \in {"fb_initiate", "mbp", "mbp_sleep"}) => inv.ready
        /\ (poll_ret = "False" /\ ~inv.accepted) => (~inv.patch /\ pc = "done")
        /\ (pc = "done" /\ inv.created # NoId /\ ~inv.ready) => ~inv.patch

C14_Witness ==
    /\ cmd = "failback_full" /\ wait /\ inv.ready /\ inv.patch
    /\ inv.accepted /\ pc = "mbp"

\* C15: an invocation of full_failback_process that passes the health checks
\* sends exactly one creation request, and its cutover request and its status
\* fetches address the stream id that request returned, never the id of an
\* older stream of the same cluster pair.
C15_OneStreamOneId ==
    cmd = "failback_full" =>
        /\ inv.post <= 1
        /\ (inv.reprobe = "healthy" /\ pc # "ff_create") => inv.post = 1
        /\ inv.reprobe # "healthy" => inv.post = 0
        /\ (pc \in AfterCreatePcs \/ inv.patch)
             => (inv.created = StreamId /\ failback_stream_id = inv.created)
        /\ inv.target \subseteq {inv.created} \ {NoId}

C15_Witness ==
    /\ cmd = "failback_full" /\ old_stream /\ wait
    /\ inv.post = 1 /\ inv.patch /\ inv.target = {StreamId} /\ poll_ret = "True"

\* C16: no operation of the FailbackManager changes Config.PRIMARY_CLUSTER_ID
\* or Config.STANDBY_CLUSTER_ID, failback_primary_id is the configured
\* standby and failback_standby_id the configured primary all along, and a
\* reverse stream is created with primary = the original standby and
\* standby = the original primary.
C16_RolesReversed ==
    cmd \in FailbackCmds =>
        /\ PRIMARY_CLUSTER_ID = "primary" /\ STANDBY_CLUSTER_ID = "standby"
        /\ failback_primary_id = STANDBY_CLUSTER_ID
        /\ failback_standby_id = PRIMARY_CLUSTER_ID
        /\ inv.post > 0 =>
             inv.payload = [primary_cluster_id |-> STANDBY_CLUSTER_ID,
                            standby_cluster_id |-> PRIMARY_CLUSTER_ID]

C16_Witness ==
    cmd \in FailbackCmds /\ inv.post = 1 /\ inv.created = StreamId /\ pc = "done"

\* A step of the monitor loop that sends a request to the remote service.
RemoteCall ==
    \/ Probe1 \/ Reprobe \/ CheckStream \/ Initiate
    \/ (MonitorFailoverProgress /\ elapsed_time < max_wait_time)

\* C17 as stated: after a shutdown signal received during the debounce wait,
\* a sleep of the progress polling or the sleep between cycles, cmd_monitor
\* issues no further remote call.
C17_Original ==
    [][(cmd = "monitor" /\ sig_pc \in {"debounce_wait", "poll_sleep", "cycle_sleep"})
          => ~RemoteCall]_vars

\* C18 as stated: a polling loop has returned within max_wait_time of real
\* time, the time spent in its status fetches counted with its sleeps.
C18_Original == poll_ret \in {"True", "False"} => wall <= max_wait_time

\* C19 as stated: failure_count equals the number of non-healthy probe
\* results, those of the re-probe included, since the last healthy one.
C19_Original == cmd = "monitor" => failure_count = unhealthy_run

\* C20 as stated: a destructive CLI command sends a POST or a PATCH only
\* after the operator confirmed or --yes was given.
C20_Original ==
    (cmd \in {"failover"} \cup FailbackCmds /\ (inv.patch \/ inv.post > 0))
        => inv.confirmed

C22_Original ==
    req.path # "none" => (~req.mutated /\ req.methods \subseteq {"GET"})

\* C23 (as stated): the connection string GET /connection returns carries
\* the password of the request it answers.
C23_Original ==
    (req.path = "/connection" /\ req.code = 200 /\ req.conn.kind = "url")
        => req.conn.password = req.password

\* C24: no error ends the monitor loop: an exception raised in a cycle
\* leaves the loop at its wait before the next cycle, and the loop has ended
\* only when a shutdown signal cleared the running flag.
C24_LoopSurvivesErrors ==
    cmd = "monitor" =>
        /\ ret = "raise" => pc = "cycle_sleep"
        /\ pc = "done" => (~running /\ ret = "stopped")

\* A cycle of the monitor raised (a null stream status), and the loop is at
\* its wait, still running.
C24_Witness ==
    /\ cmd = "monitor" /\ ret = "raise" /\ pc = "cycle_sleep"
    /\ running /\ cycles < MaxCycles

\* C25: the health probers of ClusterMonitor and FailbackManager never
\* raise, and a response that is an exception of the request, a non-200, a
\* body that is no JSON or a body with a null state or operation_status
\* yields False.
C25_ProbersNeverRaise ==
    fn.op = "probe" =>
        /\ fn.monitor.exc = "none" /\ fn.failback.exc = "none"
        /\ (\/ fn.resp.kind # "http" \/ fn.resp.code # 200
            \/ fn.resp.body # "json"
            \/ fn.resp.state = Null \/ fn.resp.op = Null)
               => (~fn.monitor.val /\ ~fn.failback.val)

\* The probers answered a 200 whose operation_status is null.
C25_Witness ==
    /\ fn.op = "probe" /\ fn.resp.kind = "http" /\ fn.resp.code = 200
    /\ fn.resp.state = "CREATED" /\ fn.resp.op = Null
    /\ fn.monitor = [exc |-> "none", val |-> FALSE]

\* C26: the three health classifiers give the same result on every
\* response, and that result is healthy exactly when the response is a 200
\* whose state is CREATED in any case and whose operation_status is a string
\* (or missing) other than FAILED in any case.
C26_ClassifiersAgree ==
    fn.op = "probe" =>
        /\ fn.monitor = fn.failback /\ fn.failback = fn.manager
        /\ fn.monitor.val <=>
             /\ fn.resp.kind = "http" /\ fn.resp.code = 200 /\ fn.resp.body = "json"
             /\ fn.resp.state \in {"CREATED", "created"}
             /\ fn.resp.op \in {"", Absent}

\* All three answered healthy on a 200 whose state is spelt in lower case.
C26_Witness ==
    /\ fn.op = "probe" /\ fn.resp.code = 200 /\ fn.resp.state = "created"
    /\ fn.resp.op = Absent
    /\ fn.monitor.val /\ fn.failback.val /\ fn.manager.val

\* C27: a non-empty failover_at argument of initiate_failover or
\* initiate_failback is the failover_at of the payload, whatever the
\* configuration; and every payload is the status FAILING_OVER alone or with
\* a non-empty failover_at.
C27_CallTimestampWins ==
    fn.op = "payload" =>
        /\ fn.payload.status = "FAILING_OVER"
        /\ fn.payload.failover_at \in {Absent, "t_call", "t_cfg"}
        /\ fn.failover_at \notin {Null, ""}
               => fn.payload.failover_at = fn.failover_at

\* A call with a timestamp under a configuration that asks for the latest
\* time and also sets a timestamp: the payload carries the call's.
C27_Witness ==
    /\ fn.op = "payload" /\ fn.failover_at = "t_call"
    /\ FAILOVER_TO_LATEST /\ FAILOVER_AT_TIMESTAMP = "t_cfg"
    /\ fn.payload.failover_at = "t_call"

C29_Original ==
    /\ inv.accepted => "failover_started" \in callbacks
    /\ seen = "COMPLETED" => "failover_completed" \in callbacks

\* C30: get_active_cluster probes only when force_check is set, or nothing
\* is cached, or more than health_check_interval has passed since the last
\* probe of the primary; otherwise it returns the cached cluster, probes
\* nothing and changes nothing.
C30_ProbesOnlyWhenStale ==
    gac.called =>
        LET due == \/ gac.force_check \/ gac.cached = NoId
                   \/ gac.age > health_check_interval
        IN /\ gac.probes # <<>> => due
           /\ ~due => /\ gac.probes = <<>> /\ gac.ret = gac.cached
                      /\ ~gac.changed

\* A call without force_check, with a cluster cached, exactly the interval
\* after the last probe of the primary: nothing is probed.
C30_Witness ==
    /\ gac.called /\ ~gac.force_check /\ gac.cached # NoId
    /\ gac.age = health_check_interval
    /\ gac.probes = <<>> /\ gac.ret = gac.cached

\* ------------------------------------------------ results, bounds and frames

C33_Original ==
    [][(cmd = "monitor" /\ accepted_run) => ~(inv'.patch /\ ~inv.patch)]_vars

\* The wait loop of "failback full" is running or has returned.
InWait ==
    /\ cmd = "failback_full" /\ wait
    /\ inv.created # NoId /\ ~inv.patch
    /\ pc \in {"wrr", "wrr_sleep"} \/ poll_ret # "none"

Fetches == (wall - elapsed_time) \div fetch_time
InLoop ==
    \/ pc \in PollerPcs \cup {"wrr", "wrr_sleep"}
    \/ poll_ret \in {"True", "False", "raise"} /\ pc # "fb_initiate"

\* C36: each of the three polling loops makes at most
\* max_wait_time / check_interval status fetches before it returns, whatever
\* the fetches return.
C36_BoundedFetches ==
    InLoop =>
        /\ Fetches <= max_wait_time \div check_interval
        /\ elapsed_time <= max_wait_time

C36_Witness ==
    /\ cmd = "failback_full" /\ pc = "done" /\ inv.patch
    /\ poll_ret = "False" /\ seen = "none"
    /\ Fetches = max_wait_time \div check_interval

\* C37: once pcr_stream_id holds an id, no step of the monitor changes or
\* clears it.
C37_StreamIdKept ==
    [][pcr_stream_id # NoId => pcr_stream_id' = pcr_stream_id]_vars

C37_Witness ==
    /\ cmd = "monitor" /\ pcr_stream_id = StreamId
    /\ inv.patch /\ ~inv.accepted /\ inv.fetched = "FAIL" /\ cycles > 1

\* C34: a refresh of get_active_cluster returns the primary id when the
\* primary probes healthy, else the standby id when the standby probes
\* healthy, else the primary id; it caches the returned id in the first two
\* cases and leaves the cache as it was in the third; every call returns one
\* of the two configured ids.
C34_RefreshResult ==
    gac.called =>
        /\ gac.ret \in {PRIMARY_CLUSTER_ID, STANDBY_CLUSTER_ID}
        /\ gac.probes # <<>> =>
             /\ gac.answers[1] =>
                  /\ gac.ret = PRIMARY_CLUSTER_ID
                  /\ current_active_cluster = PRIMARY_CLUSTER_ID
             /\ (~gac.answers[1] /\ gac.answers[2]) =>
                  /\ gac.ret = STANDBY_CLUSTER_ID
                  /\ current_active_cluster = STANDBY_CLUSTER_ID
             /\ (~gac.answers[1] /\ ~gac.answers[2]) =>
                  /\ gac.ret = PRIMARY_CLUSTER_ID
                  /\ current_active_cluster = gac.cached

C34_Witness ==
    /\ gac.called /\ gac.answers = <<FALSE, FALSE>>
    /\ gac.cached = STANDBY_CLUSTER_ID /\ gac.ret = PRIMARY_CLUSTER_ID
    /\ current_active_cluster = STANDBY_CLUSTER_ID

\* C39 as stated: a connection string returned from the cache was stored at
\* most cache_ttl seconds before the call that returns it.
C39_Original == req.hit => now - req.stored <= cache_ttl

\* C38: get_db_connection_with_retry makes at most max_retries attempts,
\* forces a refresh of the active cluster after each failed attempt but the
\* last, returns what the first attempt that does not raise returned, and
\* raises the exception of the last attempt when all attempts fail.
C38_RetryContract ==
    retry.pc # "idle" =>
        /\ retry.attempts <= retry.max_retries
        /\ retry.attempts =
             Len(retry.excs) + (IF retry.pc = "returned" THEN 1 ELSE 0)
        /\ retry.refreshes =
             IF retry.pc \in {"sleep", "raised"} /\ retry.excs # <<>>
             THEN Len(retry.excs) - 1 ELSE Len(retry.excs)
        /\ (retry.pc = "attempt" /\ retry.attempts > 0) =>
             (gac.called /\ gac.force_check /\ gac.probes # <<>>)
        /\ retry.pc = "returned" =>
             (retry.ret = req.conn /\ retry.exc = NoExc)
        /\ (retry.pc = "raised" /\ retry.max_retries > 0) =>
             /\ Len(retry.excs) = retry.max_retries
             /\ retry.exc = retry.excs[retry.max_retries]
             /\ retry.exc.attempt = retry.max_retries - 1
        /\ retry.pc \in {"attempt", "sleep"} =>
             (retry.ret = NotCached /\ retry.exc = NoExc)

C38_Witness ==
    /\ retry.pc = "returned" /\ retry.max_retries = MaxRetries
    /\ Len(retry.excs) = 2 /\ retry.refreshes = 2
    /\ retry.ret.kind = "url"

\* C40: after a signal cleared the running flag, the sidecar's loop handles
\* at most one more request and then closes the server; a signal that finds
\* the loop waiting for a request does not end the wait: the loop is left
\* only when that request has been handled.
C40_FlagReadBetweenRequests ==
    /\ service.after <= 1
    /\ service.pc = "closed" => (service.signalled /\ ~service.running)
    /\ (service.pc = "closed" /\ service.sig_at = "waiting") => service.after = 1
    /\ (service.pc = "closed" /\ service.sig_at = "test") => service.after = 0
    /\ (service.signalled /\ service.pc = "waiting") =>
         (service.sig_at = "waiting" /\ service.after = 0)
    /\ service.after = 1 => service.pc \in {"test", "closed"}

C40_Witness ==
    /\ service.pc = "closed" /\ service.sig_at = "waiting"
    /\ service.after = 1 /\ Len(service.log) = 2

\* C31: the test scenario calls for a failover only with at least 240 s
\* elapsed, a fetched status that is REPLICATING or STARTING and no earlier
\* successful attempt; after a successful attempt it issues no further
\* request; a disruption succeeds at most once and never before 120 s.
C31_ScheduledOnce ==
    /\ scenario.last.called =>
         /\ scenario.last.elapsed >= failover_after
         /\ scenario.last.status \in {"REPLICATING", "STARTING"}
         /\ ~scenario.last.before
    /\ scenario.successes <= 1
    /\ scenario.failover_triggered <=> scenario.successes = 1
    /\ scenario.disruptions <= 1
    /\ scenario.disruption_triggered <=> scenario.disruptions = 1
    /\ scenario.disruptions = 1 => scenario.disrupted_at >= disruption_after

C31_Witness ==
    /\ scenario.pc = "ended" /\ scenario.check_count = MaxChecks
    /\ scenario.failover_triggered /\ scenario.disruption_triggered
    /\ scenario.last.success /\ scenario.last.elapsed < scenario.t - scenario.interval
====
